---- MODULE Spec2Model ----
(***************************************************************************)
(* Model of kindle-ai-export.                                              *)
(*                                                                         *)
(* Part 1: the page traversal of src/extract-kindle-book.ts (main): the    *)
(* capture loop, its stop conditions, the navigation retry loop, the       *)
(* metadata.json write and the reset of the reader to its initial page.    *)
(* The Kindle web reader (the "Reading Surface") is the environment: what  *)
(* each footer read, chevron test and navigation command yields is drawn   *)
(* from the set of outcomes the surface's behaviour class (mode) allows.   *)
(***************************************************************************)
EXTENDS Integers, Sequences, FiniteSets, TLC

\* ---------------------------------------------------------------- bounds
MaxTotal == 3        \* small books have 1..MaxTotal pages
BigTotal == 10       \* one larger book, whose back matter starts before the last page
MaxRuns  == 2        \* runs of the extract script over the same out/ directory

\* ------------------------------------------------------ program constants
maxRetries      == 20   \* const maxRetries = 20
StagnationLimit == 2    \* if (__stagnantCount >= 2)
WithinKeys      == 3    \* ['ArrowRight', 'PageDown', 'Space']

None == 0               \* undefined (no page in the footer, no file, ...)

Min(a, b) == IF a < b THEN a ELSE b
Max(a, b) == IF a > b THEN a ELSE b

\* ------------------------------------------------------------------- TOC
\* A TOC sample: the entry's title and the footer read after clicking it
\* (page = None for a "Location N of M" footer).
TocItem(t, p, tot) == [title |-> t, page |-> p, total |-> tot]

\* A title is the sequence of its words (the parts between the spaces).
\* toLowerCase of a word: what the i flag of the patterns compares.
foldCase(word) ==
  CASE word \in {"Acknowledgements", "ACKNOWLEDGEMENTS"} -> "acknowledgements"
    [] word \in {"About", "ABOUT"} -> "about"
    [] word \in {"The", "THE"} -> "the"
    [] word \in {"Author", "AUTHOR"} -> "author"
    [] word \in {"Copyright", "COPYRIGHT"} -> "copyright"
    [] word \in {"Epilogue", "EPILOGUE"} -> "epilogue"
    [] word \in {"Preview", "PREVIEW"} -> "preview"
    [] word \in {"Newsletter", "NEWSLETTER"} -> "newsletter"
    [] word \in {"Chapter", "CHAPTER"} -> "chapter"
    [] word \in {"Cover", "COVER"} -> "cover"
    [] word \in {"Page", "PAGE"} -> "page"
    [] word \in {"Location", "LOCATION"} -> "location"
    [] word \in {"Of", "OF"} -> "of"
    [] OTHER -> word

fold(title) == [k \in DOMAIN title |-> foldCase(title[k])]

\* a word that starts with the letters of stem
wordStartsWith(word, stem) ==
  \/ word = stem
  \/ << word, stem >> \in { << "epilogue", "epilog" >>,
                            << "newsletters", "newsletter" >>,
                            << "excerpt:", "excerpt" >> }

startsWith(s, w) ==
  /\ Len(w) <= Len(s)
  /\ \A k \in 1..(Len(w) - 1) : s[k] = w[k]
  /\ wordStartsWith(s[Len(w)], w[Len(w)])

endsWith(s, w) ==
  /\ Len(w) <= Len(s)
  /\ SubSeq(s, Len(s) - Len(w) + 1, Len(s)) = w

includes(s, w) ==
  \E k \in 0..(Len(s) - Len(w)) : SubSeq(s, k + 1, k + Len(w)) = w

\* The shapes of the patterns of parseTocItems, all with the i flag:
\*   "anywhere" /words/   "whole" /^words$/   "start" /^words/
\*   "startSpace" /^words /   "spaceEnd" / words$/
Pattern(shape, words) == [shape |-> shape, words |-> words]

test(pattern, title) ==
  LET s == fold(title)
      w == pattern.words
  IN  CASE pattern.shape = "anywhere"   -> includes(s, w)
        [] pattern.shape = "whole"      -> s = w
        [] pattern.shape = "start"      -> startsWith(s, w)
        [] pattern.shape = "startSpace" -> startsWith(s, w) /\ Len(s) > Len(w)
        [] pattern.shape = "spaceEnd"   -> endsWith(s, w) /\ Len(s) > Len(w)

\* the patterns of parseTocItems of extract-kindle-book.ts
BackMatterPatterns ==
  { Pattern("anywhere", << "acknowledgements" >>),
    Pattern("whole", << "discover", "more" >>),
    Pattern("whole", << "extras" >>),
    Pattern("anywhere", << "about", "the", "author" >>),
    Pattern("anywhere", << "meet", "the", "author" >>),
    Pattern("startSpace", << "also", "by" >>),
    Pattern("whole", << "copyright" >>),
    Pattern("spaceEnd", << "teaser" >>),
    Pattern("spaceEnd", << "preview" >>),
    Pattern("start", << "excerpt", "from" >>),
    Pattern("whole", << "cast", "of", "characters" >>),
    Pattern("whole", << "timeline" >>),
    Pattern("start", << "other", "titles" >>) }

matchesBackMatter(title) == \E p \in BackMatterPatterns : test(p, title)

\* index of the first item with a page (0: none)            tocItems.find(...)
firstPageTocIndex(items) ==
  IF \E i \in 1..Len(items) : items[i].page # None
  THEN CHOOSE i \in 1..Len(items) :
         /\ items[i].page # None
         /\ \A j \in 1..(i - 1) : items[j].page = None
  ELSE 0

isAfterLast(items, i) ==
  /\ items[i].page # None
  /\ i # firstPageTocIndex(items)
  /\ ~ (items[i].page * 10 < 9 * items[i].total)   \* percentage < 0.9 -> false
  /\ matchesBackMatter(items[i].title)

\* index of the first back-matter item (0: none)
afterLastPageTocIndex(items) ==
  IF \E i \in 1..Len(items) : isAfterLast(items, i)
  THEN CHOOSE i \in 1..Len(items) :
         /\ isAfterLast(items, i)
         /\ \A j \in 1..(i - 1) : ~ isAfterLast(items, j)
  ELSE 0

parseTocItems(items) ==
  [firstPageTocItem     |-> firstPageTocIndex(items),
   afterLastPageTocItem |-> afterLastPageTocIndex(items)]

\* The TOCs of the model.
SmallTocs ==
  UNION { { << TocItem(<< "Cover" >>, None, t), TocItem(<< "Chapter", "1" >>, f, t) >> :
              f \in 1..t } : t \in 1..MaxTotal }

BigTocs ==
  { << TocItem(<< "Cover" >>, None, BigTotal),
       TocItem(<< "Chapter", "1" >>, f, BigTotal),
       TocItem(<< "Acknowledgements" >>, BigTotal - 1, BigTotal) >> :
      f \in (BigTotal - 2)..(BigTotal - 1) }

NoPageTocs == { << >>, << TocItem(<< "Cover" >>, None, MaxTotal) >> }

\* --------------------------------------------------------------- state
VARIABLES
  mode,             \* behaviour class of the Reading Surface
  toc,              \* tocItems: the TOC samples of the book
  skipReset,        \* SKIP_RESET === '1' || DBG
  cur,              \* render the reader shows (its page; 0: front matter)
  run,              \* number of the current run of the script
  pc,               \* position of main()
  outcome,          \* "none" while running, then "Done" or "Failed"
  initialPage,      \* initialPageNav?.page
  pageNav,          \* pageNav.page of the current loop iteration
  src,              \* src of the current loop iteration
  pages,            \* pages: Array<PageChunk>
  lastCapturedPage, \* __lastCapturedPage
  stagnantCount,    \* __stagnantCount
  iterations,       \* __iterations
  reachedEnd,       \* __reachedEnd
  retries,          \* retries
  lastSrc,          \* lastSrc
  disk,             \* out/<asin>/pages: file name -> run that wrote it
  metadata,         \* pages stored in out/<asin>/metadata.json
  metaRun,          \* run that wrote metadata.json (0: no such file)
  log               \* console.warn messages of the current run

\* state of the transcription scripts (part 2) and of the exporters (part 3)
VARIABLES
  script,           \* "transcribe": transcribe-book-content.ts, "ocr": ocr-...
  aiProvider,       \* getEnv('AI_PROVIDER') || 'openai'
  concurrencyEnv,   \* getEnv('OLLAMA_CONCURRENCY') / getEnv('OCR_CONCURRENCY')
  inputs,            \* the array handed to pMap (metadata.pages / screenshots)
  metaToc,          \* metadata.toc
  task,             \* one mapper call per item: its position and retries
  requestErrors,    \* the items one of whose requests ended with an error
  contentJson,      \* out/<asin>/content.json
  tpc,              \* position of main() of the transcription script
  trun,             \* number of the current run of the transcription script
  exportScript,     \* "markdown": export-book-markdown.ts (and -pdf), "audio"
  isPreview,        \* getEnv('AUDIOBOOK_PREVIEW') === 'true'
  si,               \* i of the chapter loop of an exporter
  sindex,           \* index of the chapter loop of an exporter
  chapters,         \* the chapters the exporter has emitted
  lastTocItemIndex, \* lastTocItemIndex of export-book-markdown
  bookMd,           \* out/<asin>/book.md: the output of the exporter
  spc               \* position of main() of the exporter

\* state of the audio generation of export-book-audio (part 10)
VARIABLES
  audioScript,      \* the revision of export-book-audio that runs
  force,            \* getEnv('FORCE') === 'true'
  batches,          \* batches: the texts handed to pMap
  audioFiles,       \* the mp3 files of the output directory: name -> run
  batchTask,        \* one mapper call per batch: its position
  apc               \* position of main() after the batches are built

audio         == << audioScript, force, batches, audioFiles, batchTask, apc >>
transcription == << script, aiProvider, concurrencyEnv, inputs, task,
                   requestErrors, tpc, trun >>
exporter      == << exportScript, isPreview, si, sindex, chapters,
                   lastTocItemIndex, bookMd, spc, audio >>

\* the parsers of the footer and of the TOC (part 4): one call at a time
VARIABLES
  callee,           \* the function called
  argument,         \* what it is called with
  returned,         \* what it returned
  ppc               \* "called" until the function has returned

parsers       == << callee, argument, returned, ppc >>
laterStages   == << transcription, metaToc, contentJson, exporter, parsers >>

vars == << mode, toc, skipReset, cur, run, pc, outcome, initialPage, pageNav,
           src, pages, lastCapturedPage, stagnantCount, iterations,
           reachedEnd, retries, lastSrc, disk, metadata, metaRun, log,
           laterStages >>

NoContent == [run |-> 0, chunks |-> << >>]

\* the transcription scripts and the exporters have not been started
TranscriptionIdle ==
  /\ script = "transcribe"
  /\ aiProvider = "openai"
  /\ concurrencyEnv = << >>
  /\ inputs = << >>
  /\ task = << >>
  /\ requestErrors = {}
  /\ tpc = "idle"
  /\ trun = 0

ParsersIdle ==
  /\ callee = "none"
  /\ argument = << >>
  /\ returned = << >>
  /\ ppc = "idle"

\* the audio generation has not been started
AudioIdle ==
  /\ audioScript = "export-book-audio"
  /\ force = FALSE
  /\ batches = << >>
  /\ audioFiles = << >>
  /\ batchTask = << >>
  /\ apc = "idle"

ExporterIdle ==
  /\ AudioIdle
  /\ exportScript = "markdown"
  /\ isPreview = FALSE
  /\ si = 0
  /\ sindex = 0
  /\ chapters = << >>
  /\ lastTocItemIndex = 0
  /\ bookMd = << >>
  /\ spc = "idle"

Modes == {"reliable", "faulty", "frozen", "glitchy"}

\* const total = parsedToc.firstPageTocItem.total
total == toc[firstPageTocIndex(toc)].total

firstContentPage == toc[firstPageTocIndex(toc)].page

\* const totalContentPages = Math.min(afterLast?.page ? afterLast.page : total, total)
totalContentPages ==
  LET a == afterLastPageTocIndex(toc)
  IN  Min(IF a # 0 /\ toc[a].page # None THEN toc[a].page ELSE total, total)

\* total pages of the book, also for a TOC without any page
bookTotal == IF toc = << >> THEN MaxTotal ELSE toc[1].total

\* -------------------------------------------------- the Reading Surface
\* Footer page of render r: "Page r of total"; front matter has no page.
PageOf(r) == r

\* What the surface may show when it is next observed.
Drift(c) == IF mode = "glitchy" THEN 1..bookTotal ELSE {c}

\* getPageNav()?.page on render c: the footer may be unreadable on a
\* glitchy surface.
FooterOf(c) == IF mode = "glitchy" THEN {PageOf(c), None} ELSE {PageOf(c)}

\* rightChevron.isVisible()
ChevronObs(c) ==
  IF mode \in {"reliable", "faulty"} THEN {c < totalContentPages} ELSE BOOLEAN

\* result of one forward command (chevron click, paging key, click on the
\* right side of the page)
Respond(c) ==
  CASE mode \in {"reliable", "faulty"} ->
         {IF c < totalContentPages THEN c + 1 ELSE c}
    [] mode = "frozen"  -> {c}
    [] OTHER            -> 1..bookTotal

\* unguarded surface calls can throw on these surfaces
MayThrow == mode \in {"faulty", "glitchy"}

\* goToPage(pageNumber) with the reader on render c: it returns at once when
\* the footer already shows the (clamped) page, throws when the footer does
\* not show that page in the end.  Outcomes: [ok, cur].
GoToOutcomes(c, pageNumber) ==
  LET n == Min(Max(1, pageNumber), bookTotal)
  IN  CASE mode \in {"reliable", "faulty"} -> {[ok |-> TRUE, cur |-> n]}
        [] mode = "frozen" ->
             {[ok |-> (PageOf(c) = n), cur |-> c]}
        [] OTHER ->
             {[ok |-> TRUE, cur |-> n]} \cup
             {[ok |-> FALSE, cur |-> x] : x \in 1..bookTotal}

\* advanceOnePageFromStuck(prevSrc, targetNextPage), from rung r on, with the
\* reader on render c.  Rung 1: chevron, 2..4: paging keys, 5: click on the
\* right of the page, 6: goToPage(targetNextPage).  Outcomes: [advanced, cur].
\* one command issued on the way: its rung, the render before and after
Command(rung, from, to) == [rung |-> rung, from |-> from, to |-> to]

\* done: the commands issued so far
RECURSIVE LadderFrom(_, _, _, _, _)
LadderFrom(r, c, prevSrc, targetNextPage, done) ==
  IF r = WithinKeys + 3
  THEN {[advanced |-> o.ok, cur |-> o.cur,
         cmds |-> Append(done, Command(r, c, o.cur))] :
          o \in GoToOutcomes(c, targetNextPage)}
  ELSE LET skipped == IF r = 1 /\ FALSE \in ChevronObs(c)
                      THEN LadderFrom(2, c, prevSrc, targetNextPage, done)
                      ELSE {}
           issued  == IF r > 1 \/ TRUE \in ChevronObs(c)
                      THEN UNION { IF prevSrc # None /\ newSrc # prevSrc
                                   THEN {[advanced |-> TRUE, cur |-> newSrc,
                                          cmds |-> Append(done,
                                                     Command(r, c, newSrc))]}
                                   ELSE LadderFrom(r + 1, newSrc, prevSrc,
                                          targetNextPage,
                                          Append(done, Command(r, c, newSrc))) :
                                   newSrc \in Respond(c) }
                      ELSE {}
       IN  skipped \cup issued

\* the ladder climbed without the test of the src after a command
advanceOnePageFromStuckBlind(c, prevSrc, targetNextPage) ==
  LadderFrom(1, c, None, targetNextPage, << >>)

advanceOnePageFromStuck(c, prevSrc, targetNextPage) ==
  LadderFrom(1, c, prevSrc, targetNextPage, << >>)

\* ------------------------------------------------------- capture records
\* `${index}`.padStart(..) + '-' + `${page}`.padStart(..) + '.png'
screenshotPath(index, page) == << index, page >>

\* pages.push({ index, page, total, screenshot })
PageChunk(index, page) ==
  [index |-> index, page |-> page, screenshot |-> screenshotPath(index, page)]

\* const index = pages.length / const finalIndex = pages.length
indexByDistinctPages(ps) == Cardinality({ps[k].page : k \in DOMAIN ps})

nextIndex(ps) == Len(ps)

\* fs.writeFile(path, b): creates or replaces the file
writeFileDropped(d, path, content) == d

writeFileIfAbsent(d, path, content) ==
  [f \in DOMAIN d \cup {path} |-> IF f \in DOMAIN d THEN d[f] ELSE content]

writeFile(d, path, content) ==
  [f \in DOMAIN d \cup {path} |-> IF f = path THEN content ELSE d[f]]

NoFiles == [f \in {} |-> None]

lastPage(ps) == IF ps = << >> THEN None ELSE ps[Len(ps)].page

\* ------------------------------------------------------------------ Init
GlitchyTocs ==
  { << TocItem(<< "Cover" >>, None, t), TocItem(<< "Chapter", "1" >>, 1, t) >> :
      t \in 1..MaxTotal }

\* On a glitchy surface the first content page does not matter (the surface
\* shows what it likes), and the larger book is left to the other surfaces.
Tocs(m) == IF m = "glitchy" THEN GlitchyTocs \cup NoPageTocs
           ELSE SmallTocs \cup BigTocs \cup NoPageTocs

Init ==
  /\ mode \in Modes
  /\ toc \in Tocs(mode)
  /\ skipReset \in (IF mode = "glitchy" THEN {FALSE} ELSE BOOLEAN)
  /\ cur \in (IF mode = "glitchy" THEN {0} ELSE 0..bookTotal)
  /\ run = 1
  /\ pc = "idle"
  /\ outcome = "none"
  /\ initialPage = None
  /\ pageNav = None
  /\ src = None
  /\ pages = << >>
  /\ lastCapturedPage = None
  /\ stagnantCount = 0
  /\ iterations = 0
  /\ reachedEnd = FALSE
  /\ retries = 0
  /\ lastSrc = None
  /\ disk = NoFiles
  /\ metadata = << >>
  /\ metaRun = 0
  /\ log = {}
  /\ TranscriptionIdle
  /\ metaToc = << >>
  /\ contentJson = NoContent
  /\ ExporterIdle
  /\ ParsersIdle

config   == << mode, toc, skipReset, run >>
trackers == << lastCapturedPage, stagnantCount, iterations >>
locals   == << pageNav, src, retries, lastSrc >>
files    == << disk, metadata, metaRun >>

\* the block-scoped variables of one loop iteration go out of scope
DropLocals ==
  /\ pageNav' = None
  /\ src' = None
  /\ retries' = 0
  /\ lastSrc' = None

\* --------------------------------------------------------------- actions
\* const initialPageNav = await getPageNav(false)
RecordInitialPage ==
  /\ pc = "idle"
  /\ initialPage' = PageOf(cur)
  /\ pc' = "toc"
  /\ UNCHANGED << laterStages, config, cur, outcome, pages, trackers, reachedEnd, locals,
                  files, log >>

\* TOC collection, parseTocItems and the click on the first content entry
CollectToc ==
  /\ pc = "toc"
  /\ parseTocItems(toc).firstPageTocItem # 0
  /\ totalContentPages > 0
  /\ cur' \in (IF mode = "glitchy" THEN 1..bookTotal ELSE {firstContentPage})
  /\ pc' = "head"
  /\ UNCHANGED << laterStages, config, outcome, initialPage, pages, trackers, reachedEnd,
                  locals, files, log >>

\* the assert passed over: main() goes on to write metadata.json
TocAssertSkipped ==
  /\ pc = "toc"
  /\ parseTocItems(toc).firstPageTocItem = 0
  /\ pc' = "write_meta"
  /\ UNCHANGED << laterStages, config, cur, outcome, initialPage, pages, trackers,
                  reachedEnd, locals, files, log >>

\* assert(firstPageTocItem, 'Unable to find first valid page in TOC')
TocAssertFails ==
  /\ pc = "toc"
  /\ parseTocItems(toc).firstPageTocItem = 0
  /\ pc' = "exited"
  /\ outcome' = "Failed"
  /\ UNCHANGED << laterStages, config, cur, initialPage, pages, trackers, reachedEnd,
                  locals, files, log >>

\* Loop head: read the footer and the src, leave the loop or go on to the
\* duplicate-page check.
LoopHead ==
  /\ pc = "head"
  /\ ~ reachedEnd
  /\ \E c \in Drift(cur) : \E f \in FooterOf(c) :
       IF f = None \/ f > totalContentPages
       THEN /\ cur' = c
            /\ pc' = "write_meta"
            /\ DropLocals
       ELSE   /\ cur' = c
              /\ pageNav' = f
              /\ src' = c
              /\ pc' = IF pages # << >> /\ lastPage(pages) = f
                       THEN "dup" ELSE "capture"
              /\ UNCHANGED << retries, lastSrc >>
  /\ UNCHANGED << laterStages, config, outcome, initialPage, pages, trackers, reachedEnd,
                  files, log >>

\* Still on the page of the last capture: try to advance before capturing.
DuplicateAdvance ==
  /\ pc = "dup"
  /\ \E c \in Drift(cur) :
     \E o \in advanceOnePageFromStuck(c, src, Min(pageNav + 1, bookTotal)) :
       IF o.advanced
       THEN \E reNav \in FooterOf(o.cur) :
              /\ cur' = o.cur
              /\ IF reNav # pageNav
                 THEN pc' = "head" /\ DropLocals
                 ELSE pc' = "capture" /\ UNCHANGED locals
       ELSE /\ cur' = o.cur
            /\ pc' = "capture"
            /\ UNCHANGED locals
  /\ UNCHANGED << laterStages, config, outcome, initialPage, pages, trackers, reachedEnd,
                  files, log >>

\* screenshot of the main image, written to <index>-<page>.png
CapturePage ==
  /\ pc = "capture"
  /\ disk' = writeFile(disk, screenshotPath(nextIndex(pages), pageNav), run)
  /\ pc' = "push"
  /\ UNCHANGED << laterStages, config, cur, outcome, initialPage, pages, trackers,
                  reachedEnd, locals, metadata, metaRun, log >>

\* if (__iterations > totalContentPages * 2)
iterationCapLoose == totalContentPages * 2 + 1

iterationCap == totalContentPages * 2

\* a loop without the stagnation counter
PushPageUncounted ==
  /\ pc = "push"
  /\ pages' = Append(pages, PageChunk(nextIndex(pages), pageNav))
  /\ stagnantCount' = 0
  /\ lastCapturedPage' = pageNav
  /\ iterations' = iterations + 1
  /\ IF iterations + 1 > iterationCap
     THEN /\ log' = log \cup {"iteration cap"}
          /\ reachedEnd' = TRUE
          /\ pc' = "write_meta"
     ELSE /\ pc' = "endcheck"
          /\ UNCHANGED << log, reachedEnd >>
  /\ UNCHANGED << laterStages, config, cur, outcome, initialPage, locals, files >>

\* pages.push(...), the stagnation counter and the iteration cap
PushPage ==
  /\ pc = "push"
  /\ pages' = Append(pages, PageChunk(nextIndex(pages), pageNav))
  /\ LET stagnant == IF lastCapturedPage = pageNav
                     THEN stagnantCount + 1 ELSE 0
     IN  /\ stagnantCount' = stagnant
         /\ lastCapturedPage' = pageNav
         /\ IF stagnant >= StagnationLimit
            THEN /\ log' = log \cup {"no progress"}
                 /\ reachedEnd' = TRUE
                 /\ pc' = "write_meta"
                 /\ UNCHANGED iterations
            ELSE /\ iterations' = iterations + 1
                 /\ IF iterations + 1 > iterationCap
                    THEN /\ log' = log \cup {"iteration cap"}
                         /\ reachedEnd' = TRUE
                         /\ pc' = "write_meta"
                    ELSE /\ pc' = "endcheck"
                         /\ UNCHANGED << log, reachedEnd >>
  /\ UNCHANGED << laterStages, config, cur, outcome, initialPage, locals, files >>

\* isEndState(), the near-end guard and the final-page test that follow a
\* capture; otherwise the navigation retry loop is entered.
CheckEnd ==
  /\ pc = "endcheck"
  /\ \E c \in Drift(cur) : \E hasChevron \in ChevronObs(c) :
     \E f \in FooterOf(c) : \E threw \in (IF MayThrow THEN BOOLEAN ELSE {FALSE}) :
       LET nearEnd   == f # None /\ f >= bookTotal - 1
           hasFooter == f # None
           isEndState == /\ ~ threw
                         /\ \/ ~ hasChevron /\ ~ hasFooter
                            \/ ~ hasChevron /\ nearEnd
       IN  IF isEndState
           THEN /\ cur' = c
                /\ pc' = "final"
                /\ UNCHANGED << log, reachedEnd, retries, lastSrc >>
           ELSE \E chevronVisible \in ChevronObs(c) :
                  /\ cur' = c
                  /\ IF ~ chevronVisible /\ pageNav >= Max(1, bookTotal - 1)
                     THEN /\ log' = log \cup {"penultimate page"}
                          /\ reachedEnd' = TRUE
                          /\ pc' = "write_meta"
                          /\ UNCHANGED << retries, lastSrc >>
                     ELSE IF pageNav >= totalContentPages
                     THEN /\ reachedEnd' = TRUE
                          /\ pc' = "write_meta"
                          /\ UNCHANGED << log, retries, lastSrc >>
                     ELSE /\ retries' = 0
                          /\ lastSrc' = src
                          /\ pc' = "retry"
                          /\ UNCHANGED << log, reachedEnd >>
  /\ UNCHANGED << laterStages, config, outcome, initialPage, pageNav, src, pages, trackers,
                  files >>

\* the final end-of-book capture, labeled min(page + 1, total)
FinalCapture ==
  /\ pc = "final"
  /\ LET finalIndex  == nextIndex(pages)
         labeledPage == Min(pageNav + 1, bookTotal)
     IN  /\ disk' = writeFile(disk, screenshotPath(finalIndex, labeledPage), run)
         /\ pages' = Append(pages, PageChunk(finalIndex, labeledPage))
  /\ log' = log \cup {"final capture"}
  /\ reachedEnd' = TRUE
  /\ pc' = "write_meta"
  /\ UNCHANGED << laterStages, config, cur, outcome, initialPage, trackers, locals,
                  metadata, metaRun >>

\* The advance command of one pass of the retry loop with the reader on c:
\* every third pass clicks the chevron or, without one, runs the fallback
\* ladder.  Outcomes: [stop, cur]; stop: retries = maxRetries; break.
AdvanceAttempt(c) ==
  IF retries % 3 = 0
  THEN (IF TRUE \in ChevronObs(c)
        THEN {[stop |-> FALSE, cur |-> c1] : c1 \in Respond(c)}
        ELSE {})
       \cup
       (IF FALSE \in ChevronObs(c)
        THEN {[stop |-> ~ o.advanced /\ bookTotal - pageNav <= 1,
               cur |-> o.cur] :
                o \in advanceOnePageFromStuck(c, lastSrc,
                                              Min(pageNav + 1, bookTotal))}
        ELSE {})
  ELSE {[stop |-> FALSE, cur |-> c]}

\* One pass of the do-while retry loop: advance command, bounded wait for a
\* new src or footer, footer check, retries++.
RetryStep ==
  /\ pc = "retry"
  /\ \E c0 \in Drift(cur) : \E a \in AdvanceAttempt(c0) :
       IF a.stop
       THEN /\ log' = log \cup {"end-of-book"}
            /\ retries' = maxRetries
            /\ cur' = a.cur
            /\ pc' = "guard"
            /\ UNCHANGED lastSrc
       ELSE \E navNow \in FooterOf(a.cur) :
              /\ lastSrc' = a.cur
              /\ cur' = a.cur
              /\ UNCHANGED log
              /\ IF navNow # None /\ navNow # pageNav
                 THEN pc' = "guard" /\ UNCHANGED retries
                 ELSE IF pageNav >= totalContentPages
                 THEN pc' = "guard" /\ UNCHANGED retries
                 ELSE /\ retries' = retries + 1
                      /\ pc' = IF retries + 1 < maxRetries
                               THEN "retry" ELSE "guard"
  /\ UNCHANGED << laterStages, config, outcome, initialPage, pageNav, src, pages, trackers,
                  reachedEnd, files >>

\* After the retry loop: retries exhausted, and the final guard on the footer.
\* Variant that throws when the retries are exhausted.
FinalGuardThrows ==
  /\ pc = "guard"
  /\ \E c \in Drift(cur) :
     \E afterPage \in FooterOf(c) \cup (IF MayThrow THEN {pageNav} ELSE {}) :
       LET exhausted == retries >= maxRetries
           stop == \/ afterPage = None
                   \/ afterPage = pageNav
                   \/ afterPage >= totalContentPages
       IN  /\ cur' = c
           /\ log' = IF exhausted THEN log \cup {"retries exhausted"} ELSE log
           /\ reachedEnd' = (stop \/ exhausted)
           /\ outcome' = IF exhausted THEN "Failed" ELSE outcome
           /\ pc' = IF exhausted THEN "exited"
                    ELSE IF stop THEN "write_meta" ELSE "head"
  /\ DropLocals
  /\ UNCHANGED << laterStages, config, initialPage, pages, trackers, files >>

\* Variant without the two stops on a reader that did not move.
FinalGuardKeepsGoing ==
  /\ pc = "guard"
  /\ \E c \in Drift(cur) :
     \E afterPage \in FooterOf(c) \cup (IF MayThrow THEN {pageNav} ELSE {}) :
       LET stop == \/ afterPage = None
                   \/ afterPage >= totalContentPages
       IN  /\ cur' = c
           /\ UNCHANGED log
           /\ reachedEnd' = stop
           /\ pc' = IF stop THEN "write_meta" ELSE "head"
  /\ DropLocals
  /\ UNCHANGED << laterStages, config, outcome, initialPage, pages, trackers, files >>

FinalGuard ==
  /\ pc = "guard"
  /\ \E c \in Drift(cur) :
     \E afterPage \in FooterOf(c) \cup (IF MayThrow THEN {pageNav} ELSE {}) :
       LET exhausted == retries >= maxRetries
           stop == \/ exhausted
                   \/ afterPage = None
                   \/ afterPage = pageNav
                   \/ afterPage >= totalContentPages
       IN  /\ cur' = c
           /\ log' = IF exhausted THEN log \cup {"retries exhausted"} ELSE log
           /\ reachedEnd' = stop
           /\ pc' = IF stop THEN "write_meta" ELSE "head"
  /\ DropLocals
  /\ UNCHANGED << laterStages, config, outcome, initialPage, pages, trackers, files >>

\* fs.writeFile(path.join(outDir, 'metadata.json'), ...)
WriteMetadata ==
  /\ pc = "write_meta"
  /\ metadata' = pages
  /\ metaRun' = run
  /\ pc' = "reset"
  /\ DropLocals
  /\ UNCHANGED << laterStages, config, cur, outcome, initialPage, pages, trackers,
                  reachedEnd, disk, log >>

\* reset of the reader to the initial page, then page.close()
ResetReader ==
  /\ pc = "reset"
  /\ pc' = "exited"
  /\ IF initialPage = None
     THEN outcome' = "Done" /\ UNCHANGED << cur, log >>
     ELSE LET endedOn == lastPage(pages)
          IN  IF skipReset
              THEN /\ log' = log \cup {"skip reset"}
                   /\ outcome' = "Done"
                   /\ UNCHANGED cur
              ELSE IF endedOn = initialPage
              THEN /\ log' = log \cup {"already on initial page"}
                   /\ outcome' = "Done"
                   /\ UNCHANGED cur
              ELSE /\ log' = log \cup {"resetting"}
                   /\ \E o \in GoToOutcomes(cur, initialPage) :
                        /\ cur' = o.cur
                        /\ outcome' = IF o.ok THEN "Done" ELSE "Failed"
  /\ UNCHANGED << laterStages, config, initialPage, pages, trackers, reachedEnd, locals,
                  files >>

\* An unguarded call on the surface throws: main() rejects.
ThrowPoints == {"toc", "head", "capture", "final"}

SurfaceError ==
  /\ pc \in ThrowPoints
  /\ MayThrow
  /\ pc' = "exited"
  /\ outcome' = "Failed"
  /\ UNCHANGED << laterStages, config, cur, initialPage, pages, trackers, reachedEnd,
                  locals, files, log >>

\* The script is run again over the same out/ directory.
StartNextRun ==
  /\ pc = "exited"
  /\ run < MaxRuns
  /\ run' = run + 1
  /\ pc' = "idle"
  /\ outcome' = "none"
  /\ initialPage' = None
  /\ pages' = << >>
  /\ lastCapturedPage' = None
  /\ stagnantCount' = 0
  /\ iterations' = 0
  /\ reachedEnd' = FALSE
  /\ log' = {}
  /\ DropLocals
  /\ UNCHANGED << laterStages, mode, toc, skipReset, cur, files >>

Next ==
  \/ RecordInitialPage
  \/ CollectToc
  \/ TocAssertFails
  \/ LoopHead
  \/ DuplicateAdvance
  \/ CapturePage
  \/ PushPage
  \/ CheckEnd
  \/ FinalCapture
  \/ RetryStep
  \/ FinalGuard
  \/ WriteMetadata
  \/ ResetReader
  \/ SurfaceError

Spec == Init /\ [][Next]_vars

\* main() is a single async function: its next step is always taken.
FairSpec == Spec /\ WF_vars(Next)

\* Runs repeated over the same out/ directory, on the surfaces that behave
\* (on them the page of the last capture is never shown again at the loop
\* head, so the duplicate-page branch is never entered).
InitRerun == Init /\ mode \in {"reliable", "faulty"}

NextRerun ==
  \/ RecordInitialPage
  \/ CollectToc
  \/ TocAssertFails
  \/ LoopHead
  \/ CapturePage
  \/ PushPage
  \/ CheckEnd
  \/ FinalCapture
  \/ RetryStep
  \/ FinalGuard
  \/ WriteMetadata
  \/ ResetReader
  \/ SurfaceError
  \/ StartNextRun

RerunSpec == InitRerun /\ [][NextRerun]_vars

\* ========================================================== properties
hasContent == firstPageTocIndex(toc) # 0

loopLeft == pc \in {"write_meta", "reset", "exited"}

\* C1: against a reliable surface the run ends in Done and the captures are
\* exactly the N content pages in reading order, plus at most the final
\* end-of-book capture.
C1_ReliableCapturesEveryPage ==
  (mode = "reliable" /\ hasContent /\ pc = "exited") =>
    LET N == totalContentPages - firstContentPage + 1
    IN  /\ outcome = "Done"
        /\ Len(pages) \in {N, N + 1}
        /\ \A k \in 1..N : pages[k].page = firstContentPage + k - 1
        /\ Len(pages) = N + 1 => "final capture" \in log

\* C2: the k-th capture (0-based) has index k, whatever pages the footer
\* reported and including the final end-of-book capture.
C2_IndexSequential ==
  \A k \in 1..Len(pages) : pages[k].index = k - 1

C2_Witness ==
  /\ Len(pages) >= 4
  /\ "final capture" \in log
  /\ \E k \in 1..(Len(pages) - 1) : pages[k + 1].page = pages[k].page
  /\ \E k \in 1..(Len(pages) - 1) : pages[k + 1].page < pages[k].page

\* C3: whatever the surface does, the traversal eventually stops.
C3_AlwaysTerminates == <>(pc = "exited")

\* C4 (as claimed): while the engine advances, the image and the record of
\* every capture taken so far are on disk.
C4_RecordsPersistedAtOnce ==
  pc \in {"retry", "guard"} =>
    \A k \in 1..Len(pages) :
      /\ pages[k].screenshot \in DOMAIN disk
      /\ metaRun = run
      /\ k <= Len(metadata)
      /\ metadata[k] = pages[k]

\* C4 (amended): the image of every capture is on disk, under the name made
\* of its index and page, from the moment the capture is in the list;
\* metadata.json is written by a run only after its loop has ended, with
\* all captures.
C4_ImagesPersistedAtOnce ==
  /\ \A k \in 1..Len(pages) :
       /\ pages[k].screenshot = screenshotPath(pages[k].index, pages[k].page)
       /\ pages[k].screenshot \in DOMAIN disk
  /\ metaRun = run => (pc \in {"reset", "exited"} /\ metadata = pages)
  /\ pc = "reset" => metaRun = run
  /\ (outcome = "Failed" /\ "resetting" \notin log) => metaRun # run

C4_Witness ==
  /\ pc = "exited"
  /\ outcome = "Failed"
  /\ Len(pages) >= 2
  /\ metaRun = 0
  /\ \A k \in 1..Len(pages) : pages[k].screenshot \in DOMAIN disk

\* C5 (as claimed): a run whose navigation retries were exhausted ends in
\* Failed.
C5_ExhaustionFails ==
  ("retries exhausted" \in log /\ "end-of-book" \notin log /\ pc = "exited")
    => outcome = "Failed"

\* C5 (amended): exhausted navigation retries end the loop as a normal end
\* of the traversal: the loop is left with reachedEnd set, metadata.json is
\* written with all captures, and the run fails only if the later reset of
\* the reader fails.
C5_ExhaustionEndsTraversal ==
  "retries exhausted" \in log =>
    /\ reachedEnd
    /\ loopLeft
    /\ pc \in {"reset", "exited"} => (metaRun = run /\ metadata = pages)
    /\ outcome = "Failed" => "resetting" \in log

C5_Witness ==
  /\ "retries exhausted" \in log
  /\ "end-of-book" \notin log
  /\ pc = "exited"
  /\ outcome = "Done"
  /\ metadata = pages
  /\ pages # << >>

\* C6 (as claimed): on a surface that never changes, a completed run has
\* captured the stuck page until the stagnation counter reached its limit.
C6_FrozenStopsByStagnation ==
  (mode = "frozen" /\ pc = "exited" /\ outcome = "Done"
     /\ lastCapturedPage # None /\ lastCapturedPage < totalContentPages
     /\ log \cap {"final capture", "penultimate page", "end-of-book"} = {})
    => (stagnantCount >= StagnationLimit /\ "no progress" \in log)

\* C6 (amended): on a surface that never changes the loop body runs once:
\* the stuck page is captured once (twice with the final end-of-book
\* capture), the stagnation counter stays 0, and below totalContentPages
\* the loop ends through the exhausted navigation retries unless an
\* end-of-book exit applies; the loop raises no error.
C6_FrozenStopsByRetries ==
  (mode = "frozen" /\ hasContent) =>
    /\ stagnantCount = 0
    /\ "no progress" \notin log
    /\ iterations <= 1
    /\ retries <= maxRetries
    /\ Len(pages) <= 2
    /\ Len(pages) = 2 => "final capture" \in log
    /\ ( /\ loopLeft
         /\ lastCapturedPage # None
         /\ lastCapturedPage < totalContentPages
         /\ "final capture" \notin log
         /\ "penultimate page" \notin log ) => "retries exhausted" \in log
    /\ outcome = "Failed" => "resetting" \in log

C6_Witness ==
  /\ mode = "frozen"
  /\ pc = "exited"
  /\ outcome = "Done"
  /\ Len(pages) = 1
  /\ pages[1].page < totalContentPages
  /\ "retries exhausted" \in log
  /\ "end-of-book" \notin log

\* C7: the loop is left as soon as the iteration count exceeds
\* 2 * totalContentPages, and the capture list never holds more than
\* 2 * totalContentPages + 1 entries.
C7_IterationCap ==
  pages # << >> =>
    /\ Len(pages) <= 2 * totalContentPages + 1
    /\ iterations > 2 * totalContentPages => (reachedEnd /\ loopLeft)

C7_Witness ==
  /\ pages # << >>
  /\ iterations > 2 * totalContentPages
  /\ Len(pages) = 2 * totalContentPages + 1
  /\ "iteration cap" \in log

\* C8: a run that recorded the initial page and completes in Done, without
\* the skip flag, leaves the reader on the initial page.
C8_ResetOnDone ==
  (pc = "exited" /\ outcome = "Done" /\ initialPage # None /\ ~ skipReset)
    => PageOf(cur) = initialPage

\* C9: a run that recorded the initial page and ends in Failed, without the
\* skip flag, leaves the reader on the initial page.
C9_ResetOnFailed ==
  (pc = "exited" /\ outcome = "Failed" /\ initialPage # None /\ ~ skipReset)
    => PageOf(cur) = initialPage

MaxPages == 2          \* captures handed to one transcription run
RetryHorizon == 22     \* the retries counter is followed up to this value

transcribeMaxRetries == 20   \* const maxRetries = 20
RefusalMaxLength == 100      \* text.length < 100
HostedConcurrency == 16      \* { concurrency: ... : 16 }
MaxConcurrency == 16         \* Math.min(16, ...)
MinConcurrency == 1          \* Math.max(1, ...)

\* a JavaScript number: an integer, or NaN
Num(n) == [nan |-> FALSE, v |-> n]

NaN == [nan |-> TRUE, v |-> 0]

\* ------------------------------------------------------------------ text
\* A text is the sequence of its lines (the parts between "\n"), a line the
\* sequence of its tokens: a space, a number, a word or a phrase.
Space == " "
Apology == "I'm sorry"
Label == "Chapter 1"
LongParagraph == "a paragraph of one hundred characters"
DigitTokens == {"7"}

tokenLength(tok) ==
  CASE tok = Space -> 1
    [] tok \in DigitTokens -> 1
    [] tok = LongParagraph -> 100
    [] tok \in {Apology, "I'M SORRY", Label, "CHAPTER 1"} -> 9
    [] tok \in {"y", "Y", "?"} -> 1
    [] tok \in {"Wh", "WH"} -> 2
    [] OTHER -> 4

\* the i flag of the regular expressions
toLowerCase(tok) ==
  CASE tok = "I'M SORRY" -> "i'm sorry"
    [] tok = Apology -> "i'm sorry"
    [] tok = "CHAPTER 1" -> "chapter 1"
    [] tok = Label -> "chapter 1"
    [] tok = "WH" -> "wh"
    [] tok = "Wh" -> "wh"
    [] tok = "Y" -> "y"
    [] OTHER -> tok

RECURSIVE lineLength(_)
lineLength(line) ==
  IF line = << >> THEN 0 ELSE tokenLength(Head(line)) + lineLength(Tail(line))

\* text.length: the characters of the lines and the "\n" between them
RECURSIVE textLength(_)
textLength(text) ==
  IF text = << >> THEN 0
  ELSE lineLength(Head(text))
       + (IF Tail(text) = << >> THEN 0 ELSE 1 + textLength(Tail(text)))

RECURSIVE trimStart(_)
trimStart(line) ==
  IF line # << >> /\ Head(line) = Space THEN trimStart(Tail(line)) ELSE line

RECURSIVE trimEnd(_)
trimEnd(line) ==
  IF line # << >> /\ line[Len(line)] = Space
  THEN trimEnd(SubSeq(line, 1, Len(line) - 1))
  ELSE line

isNumberLine(line) ==
  LET t == trimEnd(trimStart(line))
  IN  t # << >> /\ \A k \in DOMAIN t : t[k] \in DigitTokens

\* .replace(/^\s*\d+\s*$\n+/m, ''): the first line that holds only a number
\* and is followed by a line break is removed
removePageNumber(lines) ==
  LET hits == {k \in 1..(Len(lines) - 1) : isNumberLine(lines[k])}
  IN  IF hits = {} THEN lines
      ELSE LET k == CHOOSE h \in hits : \A g \in hits : h <= g
           IN  SubSeq(lines, 1, k - 1) \o SubSeq(lines, k + 1, Len(lines))

\* .replaceAll(/^\s*/gm, ''): white space at the start of a line goes, and
\* with it the empty lines before the line
RECURSIVE stripLineStarts(_)
stripLineStarts(lines) ==
  IF lines = << >> THEN << >>
  ELSE LET h == trimStart(Head(lines))
       IN  IF h = << >> /\ Tail(lines) # << >>
           THEN stripLineStarts(Tail(lines))
           ELSE << h >> \o stripLineStarts(Tail(lines))

\* .replaceAll(/\s*$/gm, ''): white space at the end of a line goes, and
\* with it the line breaks at the end of the text
RECURSIVE stripLineEnds(_)
stripLineEnds(lines) ==
  IF lines = << >> THEN << >>
  ELSE LET rest == stripLineEnds(Tail(lines))
           h == trimEnd(Head(lines))
       IN  IF h = << >> /\ rest = << >> THEN << >> ELSE << h >> \o rest

normalizeKeepsPageNumber(rawText) ==
  stripLineEnds(stripLineStarts(rawText))

\* let text = rawText.replace(...).replaceAll(...).replaceAll(...)
\* (the empty string is the text without lines)
normalize(rawText) ==
  stripLineEnds(stripLineStarts(removePageNumber(rawText)))

\* /i'm sorry/i.test(text)
mentionsApology(text) ==
  \E l \in DOMAIN text : \E k \in DOMAIN text[l] :
    toLowerCase(text[l][k]) = toLowerCase(Apology)

\* if (text.length < 100 && /i'm sorry/i.test(text))
isRefusal(text) ==
  textLength(text) < RefusalMaxLength /\ mentionsApology(text)

\* new RegExp(label): the label is the source of the pattern, not a literal.
\* A label is a sequence of tokens; the token "?" is the quantifier of the
\* pattern language and makes the token before it optional, every other
\* token stands for itself.
RECURSIVE RegExp(_)
RegExp(label) ==
  IF label = << >> THEN << >>
  ELSE IF Len(label) >= 2 /\ label[2] = "?"
       THEN << [tok |-> label[1], optional |-> TRUE] >>
            \o RegExp(SubSeq(label, 3, Len(label)))
       ELSE << [tok |-> label[1], optional |-> FALSE] >>
            \o RegExp(Tail(label))

\* the tokens of line the pattern matches at its start (greedy, with
\* backtracking, case-insensitive), -1 when it does not match there
RECURSIVE matchLength(_, _)
matchLength(items, line) ==
  IF items = << >> THEN 0
  ELSE LET taken ==
             IF line # << >>
                /\ toLowerCase(Head(line)) = toLowerCase(Head(items).tok)
             THEN matchLength(Tail(items), Tail(line))
             ELSE -1
       IN  IF taken # -1 THEN taken + 1
           ELSE IF Head(items).optional
                THEN matchLength(Tail(items), line)
                ELSE -1

\* \s* at the end of a match: the white space that follows, line breaks
\* included
RECURSIVE skipWhitespace(_)
skipWhitespace(lines) ==
  IF lines = << >> THEN << >>
  ELSE LET h == trimStart(Head(lines))
       IN  IF h = << >> THEN skipWhitespace(Tail(lines))
           ELSE << h >> \o Tail(lines)

\* text.replace(new RegExp(`^${tocItem.label}\\s*`, 'i'), '')
stripLabel(text, label) ==
  IF text = << >> THEN text
  ELSE LET n == matchLength(RegExp(label), Head(text))
       IN  IF n = -1 THEN text
           ELSE skipWhitespace(<< SubSeq(Head(text), n + 1, Len(Head(text))) >>
                               \o Tail(text))

\* what a backend may answer to one request
Responses ==
  { << << >> >>,                                  \* ""
    << << Space >>, << >> >>,                     \* " \n"
    << << "7" >>, << >> >>,                       \* "7\n"
    << << Apology >> >>,                          \* a refusal
    << << Apology, Space, LongParagraph >> >>,    \* a long text
    << << "CHAPTER 1" >> >>,                      \* only the chapter title
    << << "CHAPTER 1" >>, << "words" >> >>,       \* title and text
    << << "7" >>, << Space, "words", Space >> >>  \* page number and text
  }

\* ----------------------------------------------------------- concurrency
Digits == <<"0", "1", "2", "3", "4", "5", "6", "7", "8", "9">>

isDigit(ch) == \E d \in DOMAIN Digits : Digits[d] = ch

digitValue(ch) == (CHOOSE d \in DOMAIN Digits : Digits[d] = ch) - 1

\* the value of the digits at the start of str, NaN when there is none
RECURSIVE parseDigits(_, _, _)
parseDigits(str, acc, seen) ==
  IF str # << >> /\ isDigit(Head(str))
  THEN parseDigits(Tail(str), acc * 10 + digitValue(Head(str)), TRUE)
  ELSE IF seen THEN Num(acc) ELSE NaN

\* Number.parseInt(str, 10)
parseInt(str) ==
  LET t == trimStart(str)
  IN  IF t # << >> /\ Head(t) = "-"
      THEN LET n == parseDigits(Tail(t), 0, FALSE)
           IN  IF n.nan THEN NaN ELSE Num(0 - n.v)
      ELSE IF t # << >> /\ Head(t) = "+" THEN parseDigits(Tail(t), 0, FALSE)
      ELSE parseDigits(t, 0, FALSE)

\* Math.min and Math.max: NaN when an argument is NaN
mathMin(a, b) == IF a.nan \/ b.nan THEN NaN ELSE IF a.v < b.v THEN a ELSE b

mathMax(a, b) == IF a.nan \/ b.nan THEN NaN ELSE IF a.v > b.v THEN a ELSE b

\* getEnv(name) || fallback : an unset and an empty variable are both << >>
envOr(value, fallback) == IF value = << >> THEN fallback ELSE value

\* Math.max(1, Math.min(16, Number.parseInt(getEnv(...) || fallback, 10)))
clampConcurrency(value, fallback) ==
  mathMax(Num(MinConcurrency),
          mathMin(Num(MaxConcurrency), parseInt(envOr(value, fallback))))

\* the concurrency option handed to pMap
concurrency ==
  IF script = "ocr" THEN clampConcurrency(concurrencyEnv, << "4" >>)
  ELSE IF aiProvider = "ollama"
       THEN clampConcurrency(concurrencyEnv, << "1", "6" >>)
       ELSE Num(HostedConcurrency)

\* p-map accepts a safe integer >= 1 (or Infinity) and throws otherwise
validConcurrency(c) == ~ c.nan /\ c.v >= 1

ConcurrencyEnvs ==
  { << >>, << "1" >>, << "0" >>, << "9", "9" >>, << "x" >> }

\* --------------------------------------------------------------- inputs
TocEntry(label, page) == [label |-> label, page |-> page]

\* metadata.toc of the transcribed book: the chapter starts on page 2
TranscribedToc == << TocEntry(<< "Cover" >>, None), TocEntry(<< Label >>, 2) >>

\* metadata.pages as the extraction writes it: indexes 0, 1, ... in order
MetadataPages ==
  UNION { { [k \in 1..n |-> PageChunk(k - 1, f[k])] :
            f \in { g \in [1..n -> 1..2] :
                      \A k \in 1..(n - 1) : g[k] <= g[k + 1] } } :
          n \in 0..MaxPages }

\* the files of out/<asin>/pages: the captures of the last run, and
\* 0000-0002.png left by an earlier one
ScreenshotFiles ==
  { PageChunk(k, 1) : k \in 0..(MaxPages - 1) } \cup { PageChunk(0, 2) }

\* globby(`${pageScreenshotsDir}/*.png`): some of the files, in any order
ScreenshotLists ==
  UNION { { f \in [1..n -> ScreenshotFiles] :
              \A j, k \in 1..n : j # k => f[j] # f[k] } : n \in 0..MaxPages }

\* pageToTocItemMap
pageToTocItemMap(tocItems) ==
  [p \in { tocItems[k].page : k \in DOMAIN tocItems } \ {None} |->
     LET last == CHOOSE k \in DOMAIN tocItems :
                   /\ tocItems[k].page = p
                   /\ \A j \in DOMAIN tocItems :
                        tocItems[j].page = p => j <= k
     IN  tocItems[last]]

\* ------------------------------------------------------------ one mapper
Waiting == [st |-> "waiting", retries |-> 0, text |-> << >>]

BaseTemperature == 0       \* temperature 0
RaisedTemperature == 5     \* temperature 0.5, in tenths

\* temperature: retries < 2 ? 0 : 0.5
temperature(n) == IF n < 2 THEN BaseTemperature ELSE RaisedTemperature

\* ${retries > 2 ? '\n\nThis is an important task ...' : ''}
escalatedInstruction(n) == n > 2

\* the request that is awaiting its answer
InFlight(n) == [st |-> "inflight", retries |-> n, text |-> << >>]

\* the mapper has returned its chunk (its retries counter is gone)
Done(text) == [st |-> "done", retries |-> 0, text |-> text]

\* the mapper threw inside its try block: logged, the mapper returns undefined
Dropped == [st |-> "dropped", retries |-> 0, text |-> << >>]

\* what a request may end with: a text, or an error (it throws)
RequestError == [ok |-> FALSE, text |-> << >>]

Answers == { [ok |-> TRUE, text |-> r] : r \in Responses } \cup {RequestError}

\* label stripping of the page of mapper k
stripTocLabel(k, text) ==
  LET page == inputs[k].page
      map == pageToTocItemMap(metaToc)
  IN  IF k > 1 /\ inputs[k - 1].page # page /\ page \in DOMAIN map
      THEN stripLabel(text, map[page].label)
      ELSE text

\* ++retries (followed up to RetryHorizon: beyond maxRetries every test of
\* the counter has the same result)
increment(n) == IF n < RetryHorizon THEN n + 1 ELSE n

\* a mapper that treats a failed request like a refusal
transcribeStepRetrying(k, answer) ==
  LET n == increment(task[k].retries)
      text == normalize(answer.text)
  IN  IF ~ answer.ok \/ (text # << >> /\ isRefusal(text))
      THEN IF n >= transcribeMaxRetries THEN Dropped ELSE InFlight(n)
      ELSE IF text = << >> THEN InFlight(n)
      ELSE Done(stripTocLabel(k, text))

\* One pass of the do-while loop of the mapper of transcribe-book-content:
\* the answer to the request, its classification, and the next request.
transcribeStep(k, answer) ==
  LET n == increment(task[k].retries)
      text == normalize(answer.text)
  IN  IF ~ answer.ok THEN Dropped
      ELSE IF text = << >> THEN InFlight(n)
      ELSE IF isRefusal(text)
           THEN IF n >= transcribeMaxRetries THEN Dropped ELSE InFlight(n)
           ELSE Done(stripTocLabel(k, text))

\* The mapper of ocr-transcribe-book-content: one recognize() call.
ocrStep(k, answer) ==
  IF ~ answer.ok THEN Dropped
  ELSE Done(normalize(answer.text))

\* the chunks renumbered 0, 1, ... in the order they are kept
reindexedChunk(k) ==
  [index |-> Cardinality({j \in 1..(k - 1) : task[j].st = "done"}),
   page |-> inputs[k].page,
   text |-> task[k].text, screenshot |-> inputs[k].screenshot]

\* const result: ContentChunk = { index, page, text, screenshot }
ContentChunk(k) ==
  [index |-> inputs[k].index, page |-> inputs[k].page,
   text |-> task[k].text, screenshot |-> inputs[k].screenshot]

Undefined == [undefined |-> TRUE]

\* what pMap resolves to: the mappers' results in the order of the input
mapped == [k \in DOMAIN inputs |->
             IF task[k].st = "done" THEN ContentChunk(k) ELSE Undefined]

\* .filter(Boolean)
filterBoolean(results) == SelectSeq(results, LAMBDA r : r # Undefined)

inFlight == Cardinality({k \in DOMAIN task : task[k].st = "inflight"})

settled(k) == task[k].st \in {"done", "dropped"}

\* ------------------------------------------------------------ the script
\* the extraction is over and its variables no longer change
TraversalOver ==
  /\ mode = "reliable"
  /\ toc = << TocItem(<< "Cover" >>, None, MaxTotal) >>
  /\ skipReset = FALSE
  /\ cur = 0
  /\ run = 1
  /\ pc = "exited"
  /\ outcome = "Done"
  /\ initialPage = None
  /\ pageNav = None
  /\ src = None
  /\ pages = << >>
  /\ lastCapturedPage = None
  /\ stagnantCount = 0
  /\ iterations = 0
  /\ reachedEnd = TRUE
  /\ retries = 0
  /\ lastSrc = None
  /\ disk = NoFiles
  /\ metadata = << >>
  /\ metaRun = 0
  /\ log = {}

traversal == << mode, toc, skipReset, cur, run, pc, outcome, initialPage,
                pageNav, src, pages, lastCapturedPage, stagnantCount,
                iterations, reachedEnd, retries, lastSrc, disk, metadata,
                metaRun, log >>

InitTranscribe ==
  /\ TraversalOver
  /\ ExporterIdle
  /\ ParsersIdle
  /\ script \in {"transcribe", "ocr"}
  /\ aiProvider \in (IF script = "ocr" THEN {"openai"}
                     ELSE {"openai", "ollama"})
  /\ concurrencyEnv \in (IF script = "transcribe" /\ aiProvider = "openai"
                         THEN {<< >>} ELSE ConcurrencyEnvs)
  /\ inputs \in (IF script = "ocr" THEN ScreenshotLists ELSE MetadataPages)
  /\ metaToc = TranscribedToc
  /\ task = [k \in DOMAIN inputs |-> Waiting]
  /\ requestErrors = {}
  /\ contentJson = NoContent
  /\ tpc = "start"
  /\ trun = 1

fixed == << traversal, exporter, parsers, script, aiProvider, concurrencyEnv, inputs,
            metaToc >>

\* the errors main() may end with
Failures == {"no pages", "warm-up failed", "pMap threw", "readFile failed"}

\* assert(metadata.pages?.length, ...), assert(pageScreenshots.length, ...)
NoPagesAssert ==
  /\ tpc = "start"
  /\ inputs = << >>
  /\ tpc' = "no pages"
  /\ UNCHANGED << fixed, task, requestErrors, contentJson, trun >>

\* the warm-up request to Ollama fails: main() throws
WarmupFails ==
  /\ tpc = "start"
  /\ inputs # << >>
  /\ script = "transcribe" /\ aiProvider = "ollama"
  /\ tpc' = "warm-up failed"
  /\ UNCHANGED << fixed, task, requestErrors, contentJson, trun >>

\* pMap(...) is called; it throws a TypeError for a concurrency it rejects
CallPMap ==
  /\ tpc = "start"
  /\ inputs # << >>
  /\ tpc' = IF validConcurrency(concurrency) THEN "mapping"
            ELSE "pMap threw"
  /\ UNCHANGED << fixed, task, requestErrors, contentJson, trun >>

\* a mapper that returns the chunk content.json already holds for its page
StartMapperUnlessDone(k) ==
  /\ tpc = "mapping"
  /\ task[k].st = "waiting"
  /\ \A j \in 1..(k - 1) : task[j].st # "waiting"
  /\ inFlight < concurrency.v
  /\ LET old == {j \in DOMAIN contentJson.chunks :
                  contentJson.chunks[j].screenshot = inputs[k].screenshot}
     IN  task' = [task EXCEPT ![k] =
                    IF old = {} THEN InFlight(0)
                    ELSE Done(contentJson.chunks[CHOOSE j \in old : TRUE].text)]
  /\ UNCHANGED << fixed, requestErrors, contentJson, tpc, trun >>

\* pMap calls the mapper of the next item while fewer than `concurrency`
\* mappers are pending; the mapper reads the screenshot and sends a request
StartMapper(k) ==
  /\ tpc = "mapping"
  /\ task[k].st = "waiting"
  /\ \A j \in 1..(k - 1) : task[j].st # "waiting"
  /\ inFlight < concurrency.v
  /\ task' = [task EXCEPT ![k] = InFlight(0)]
  /\ UNCHANGED << fixed, requestErrors, contentJson, tpc, trun >>

\* fs.readFile(screenshot) fails outside the try block: the mapper rejects,
\* pMap rejects and main() throws
ReadFileFails(k) ==
  /\ tpc = "mapping"
  /\ script = "transcribe"
  /\ task[k].st = "waiting"
  /\ \A j \in 1..(k - 1) : task[j].st # "waiting"
  /\ inFlight < concurrency.v
  /\ tpc' = "readFile failed"
  /\ UNCHANGED << fixed, task, requestErrors, contentJson, trun >>

\* the answer to the request of mapper k arrives
Answer(k) ==
  /\ tpc = "mapping"
  /\ task[k].st = "inflight"
  /\ \E answer \in Answers :
       /\ task' = [task EXCEPT ![k] = IF script = "ocr"
                                      THEN ocrStep(k, answer)
                                      ELSE transcribeStep(k, answer)]
       /\ requestErrors' = IF answer.ok THEN requestErrors
                           ELSE requestErrors \cup {k}
  /\ UNCHANGED << fixed, contentJson, tpc, trun >>

\* every mapper has returned: content.json is written
WriteContent ==
  /\ tpc = "mapping"
  /\ \A k \in DOMAIN task : settled(k)
  /\ contentJson' = [run |-> trun, chunks |-> filterBoolean(mapped)]
  /\ tpc' = "written"
  /\ UNCHANGED << fixed, task, requestErrors, trun >>

NextTranscribe ==
  \/ NoPagesAssert
  \/ WarmupFails
  \/ CallPMap
  \/ \E k \in DOMAIN task : StartMapper(k)
  \/ \E k \in DOMAIN task : ReadFileFails(k)
  \/ \E k \in DOMAIN task : Answer(k)
  \/ WriteContent

TranscribeSpec == InitTranscribe /\ [][NextTranscribe]_vars

\* The transcription script is run again over the same out/ directory.
RerunPages == 1        \* captures handed to a repeated transcription run

RerunInputs ==
  UNION { { [k \in 1..n |-> PageChunk(k - 1, f[k])] :
            f \in { g \in [1..n -> 1..2] :
                      \A k \in 1..(n - 1) : g[k] <= g[k + 1] } } :
          n \in 0..RerunPages }

InitTranscribeRerun ==
  /\ TraversalOver
  /\ ExporterIdle
  /\ ParsersIdle
  /\ script = "transcribe"
  /\ aiProvider \in {"openai", "ollama"}
  /\ concurrencyEnv = << >>
  /\ inputs \in RerunInputs
  /\ metaToc = TranscribedToc
  /\ task = [k \in DOMAIN inputs |-> Waiting]
  /\ requestErrors = {}
  /\ contentJson = NoContent
  /\ tpc = "start"
  /\ trun = 1

\* await main(), once more
RunAgain ==
  /\ tpc \in {"written"} \cup Failures
  /\ trun < MaxRuns
  /\ trun' = trun + 1
  /\ tpc' = "start"
  /\ task' = [k \in DOMAIN inputs |-> Waiting]
  /\ requestErrors' = {}
  /\ UNCHANGED << fixed, contentJson >>

NextTranscribeRerun ==
  \/ NoPagesAssert
  \/ WarmupFails
  \/ CallPMap
  \/ \E k \in DOMAIN task : StartMapper(k)
  \/ \E k \in DOMAIN task : ReadFileFails(k)
  \/ \E k \in DOMAIN task : Answer(k)
  \/ WriteContent
  \/ RunAgain

TranscribeRerunSpec == InitTranscribeRerun /\ [][NextTranscribeRerun]_vars

\* ------------------------------------------- properties of transcription
chunksWritten == contentJson.chunks

hasChunkOf(k) ==
  \E j \in DOMAIN chunksWritten :
    chunksWritten[j].screenshot = inputs[k].screenshot

\* C11: the retry loop of a page makes at most maxRetries attempts,
\* whatever the backend answers (a request in flight after n completed
\* passes is attempt n + 1).
C11_AtMostMaxRetriesAttempts ==
  \A k \in DOMAIN task :
    task[k].st = "inflight" => task[k].retries + 1 <= transcribeMaxRetries

\* C12: no chunk written to content.json has an empty text.
C12_NoEmptyChunk ==
  \A j \in DOMAIN chunksWritten : chunksWritten[j].text # << >>

\* C13: when content.json is written, a page whose mapper failed is absent
\* from it and every other capture has exactly one chunk, which carries the
\* index, page and screenshot of its capture (no reindexing).
C13_OnlyFailedPagesRemoved ==
  tpc = "written" =>
    /\ Len(chunksWritten)
         = Cardinality({k \in DOMAIN task : task[k].st = "done"})
    /\ \A k \in DOMAIN task :
         LET js == {j \in DOMAIN chunksWritten :
                      chunksWritten[j].screenshot = inputs[k].screenshot}
         IN  IF task[k].st = "done"
             THEN /\ Cardinality(js) = 1
                  /\ \A j \in js :
                       /\ chunksWritten[j].index = inputs[k].index
                       /\ chunksWritten[j].page = inputs[k].page
             ELSE js = {}

\* a page was dropped, and a later capture's chunk was still written
C13_Witness ==
  /\ tpc = "written"
  /\ script = "transcribe"
  /\ \E k \in DOMAIN task :
       /\ task[k].st = "dropped"
       /\ \E j \in DOMAIN task : j > k /\ task[j].st = "done"

\* C14: the chunks written to content.json are in strictly increasing
\* index order.
C14_StrictlyIncreasingIndex ==
  \A j \in 1..(Len(chunksWritten) - 1) :
    chunksWritten[j].index < chunksWritten[j + 1].index

C16_EscalationAfterAttemptTwo ==
  \A k \in DOMAIN task :
    (script = "transcribe" /\ task[k].st = "inflight") =>
      LET attempt == task[k].retries + 1
      IN  IF attempt <= 2
          THEN /\ temperature(task[k].retries) = BaseTemperature
               /\ ~ escalatedInstruction(task[k].retries)
          ELSE /\ temperature(task[k].retries) = RaisedTemperature
               /\ escalatedInstruction(task[k].retries)

\* C18: the concurrency handed to pMap is a whole number between 1 and 16
\* and no more requests than that are in flight.
C18_ConcurrencyBounded ==
  tpc \in {"mapping", "pMap threw", "written"} =>
    /\ ~ concurrency.nan
    /\ concurrency.v \in 1..16
    /\ inFlight <= concurrency.v

MaxTocEntries == 3     \* entries of metadata.toc
MaxChunks == 3         \* chunks of content.json, and the highest page

TocLabels == << "Title", "Ch1", "Copyright", "Index", "Notes" >>

\* a chunk of content.json
Chunk(index, page) ==
  [index |-> index, page |-> page, text |-> << << "words" >> >>,
   screenshot |-> screenshotPath(index, page)]

StitchTocs ==
  UNION { { [k \in 1..n |-> TocEntry(TocLabels[k], f[k])] :
            f \in [1..n -> {None} \cup 1..MaxChunks] } :
          n \in 0..MaxTocEntries }

StitchContents ==
  UNION { { [k \in 1..n |-> Chunk(k - 1, f[k])] : f \in [1..n -> 1..MaxChunks] } :
          n \in 0..MaxChunks }

\* a book of 20 pages with its title page, one chapter and the copyright
ExampleToc ==
  << TocEntry("Title", 1), TocEntry("Ch1", 2), TocEntry("Copyright", 19) >>

ExampleContent == [k \in 1..20 |-> Chunk(k - 1, k)]

\* { index: 2, page: 2, text: '\n\nEnd of preview', screenshot: '' }
EndOfPreview ==
  [index |-> 2, page |-> 2, text |-> << << "End of preview" >> >>,
   screenshot |-> << >>]

\* const content = rawContent.filter(...).concat(...)
exportContent ==
  IF isPreview
  THEN SelectSeq(contentJson.chunks, LAMBDA c : c.page = 1)
         \o << EndOfPreview >>
  ELSE contentJson.chunks

\* Array.prototype.findIndex with the test of the exporters; -1: none
findIndexAfter(chunks, page, preview) ==
  LET hits == {j \in DOMAIN chunks :
                 chunks[j].page > page \/ (preview /\ j = Len(chunks))}
  IN  IF hits = {} THEN 0 - 1
      ELSE (CHOOSE j \in hits : \A h \in hits : j <= h) - 1

\* content.findIndex((c, j) => c.page >= nextTocItem.page ||
\*                             (isPreview && j === content.length - 1))
findIndex(chunks, page, preview) ==
  LET hits == {j \in DOMAIN chunks :
                 chunks[j].page >= page \/ (preview /\ j = Len(chunks))}
  IN  IF hits = {} THEN 0 - 1
      ELSE (CHOOSE j \in hits : \A h \in hits : j <= h) - 1

\* content.slice(start, end) for 0 <= start
slice(chunks, start, end) == SubSeq(chunks, start + 1, Min(end, Len(chunks)))

\* const nextIndex = nextTocItem.page ? content.findIndex(...) : content.length
nextIndexOf(i) ==
  IF metaToc[i + 2].page # None
  THEN findIndex(exportContent, metaToc[i + 2].page, isPreview)
  ELSE Len(exportContent)

\* if (nextIndex < index || (isPreview && nextIndex === index)) continue
skipped(next, index) == next < index \/ (isPreview /\ next = index)

Chapter(i, from, to) ==
  [entry |-> i, label |-> metaToc[i + 1].label, from |-> from, to |-> to,
   chunks |-> slice(exportContent, from, to)]

\* The first loop of export-book-markdown (its index stays 0): the last
\* pair, up to pair i, whose entry has a page and whose nextIndex is not -1.
RECURSIVE trackLast(_, _)
trackLast(i, last) ==
  IF ~ (i < Len(metaToc) - 1) THEN last
  ELSE IF metaToc[i + 1].page = None \/ nextIndexOf(i) < 0
       THEN trackLast(i + 1, last)
       ELSE trackLast(i + 1, i)

\* the entries of the "Table of Contents" of book.md (positions from 0)
listedEntries(last) ==
  {i \in 0..(Len(metaToc) - 1) : metaToc[i + 1].page # None /\ i <= last}

\* the output: the table of contents and the chapters
Book(last, chaps) == << [toc |-> listedEntries(last), chapters |-> chaps] >>

InitExport ==
  /\ TraversalOver
  /\ TranscriptionIdle
  /\ ParsersIdle
  /\ AudioIdle
  /\ exportScript \in {"markdown", "audio"}
  /\ isPreview \in (IF exportScript = "audio" THEN BOOLEAN ELSE {FALSE})
  /\ \/ /\ metaToc \in StitchTocs
        /\ contentJson \in { [run |-> 1, chunks |-> c] : c \in StitchContents }
     \/ /\ metaToc = ExampleToc
        /\ contentJson = [run |-> 1, chunks |-> ExampleContent]
  /\ si = 0
  /\ sindex = 0
  /\ chapters = << >>
  /\ lastTocItemIndex = 0
  /\ bookMd = << >>
  /\ spc = "start"

exportFixed == << traversal, transcription, parsers, audio, exportScript,
                 isPreview >>

\* the two lists the chapter loop reads
exportInputs == << metaToc, contentJson >>

\* assert(content.length, ...), assert(metadata.toc?.length, ...)
ExportAsserts ==
  /\ spc = "start"
  /\ spc' = IF exportContent = << >> \/ metaToc = << >> THEN "failed"
            ELSE IF exportScript = "markdown" THEN "track" ELSE "loop"
  /\ UNCHANGED << exportFixed, exportInputs, si, sindex, chapters, lastTocItemIndex,
                  bookMd >>

\* let lastTocItemIndex = 0; for (...) { ...; lastTocItemIndex = i }
TrackLastTocItem ==
  /\ spc = "track"
  /\ lastTocItemIndex' = trackLast(0, 0)
  /\ spc' = "loop"
  /\ UNCHANGED << exportFixed, exportInputs, si, sindex, chapters, bookMd >>

\* the pair is passed over: continue
SkipPair ==
  /\ spc = "loop"
  /\ si < Len(metaToc) - 1
  /\ \/ metaToc[si + 1].page = None
     \/ skipped(nextIndexOf(si), sindex)
  /\ si' = si + 1
  /\ UNCHANGED << exportFixed, exportInputs, sindex, chapters, lastTocItemIndex, bookMd,
                  spc >>

\* the chapter of the pair is emitted; jumping back would set index = to
EmitChapterJumpingBack ==
  /\ spc = "loop"
  /\ si < Len(metaToc) - 1
  /\ metaToc[si + 1].page # None
  /\ nextIndexOf(si) >= 0
  /\ LET to == IF isPreview THEN Len(exportContent) ELSE nextIndexOf(si)
     IN  /\ chapters' = Append(chapters, Chapter(si, sindex, to))
         /\ sindex' = to
  /\ si' = si + 1
  /\ UNCHANGED << exportFixed, exportInputs, lastTocItemIndex, bookMd, spc >>

\* the chapter is cut out of content with splice instead of slice
EmitChapterSplicing ==
  /\ spc = "loop"
  /\ si < Len(metaToc) - 1
  /\ metaToc[si + 1].page # None
  /\ ~ skipped(nextIndexOf(si), sindex)
  /\ LET to == IF isPreview THEN Len(exportContent) ELSE nextIndexOf(si)
     IN  /\ chapters' = Append(chapters, Chapter(si, sindex, to))
         /\ sindex' = to
         /\ contentJson' =
              [contentJson EXCEPT !.chunks =
                 SubSeq(@, 1, sindex) \o SubSeq(@, to + 1, Len(@))]
  /\ si' = si + 1
  /\ UNCHANGED << exportFixed, metaToc, lastTocItemIndex, bookMd, spc >>

\* const chunks = content.slice(index, nextIndex) ... index = nextIndex
EmitChapter ==
  /\ spc = "loop"
  /\ si < Len(metaToc) - 1
  /\ metaToc[si + 1].page # None
  /\ ~ skipped(nextIndexOf(si), sindex)
  /\ LET to == IF isPreview THEN Len(exportContent) ELSE nextIndexOf(si)
     IN  /\ chapters' = Append(chapters, Chapter(si, sindex, to))
         /\ sindex' = to
  /\ si' = si + 1
  /\ UNCHANGED << exportFixed, exportInputs, lastTocItemIndex, bookMd, spc >>

\* throw new Error(`TODO: handle large paragraphs ...`): a paragraph of the
\* chapter is longer than the audio batch limit
ParagraphTooLarge ==
  /\ spc = "loop"
  /\ exportScript = "audio"
  /\ si < Len(metaToc) - 1
  /\ metaToc[si + 1].page # None
  /\ ~ skipped(nextIndexOf(si), sindex)
  /\ spc' = "failed"
  /\ UNCHANGED << exportFixed, exportInputs, si, sindex, chapters, lastTocItemIndex,
                  bookMd >>

\* the loop has ended: the book is written
FinishExport ==
  /\ spc = "loop"
  /\ ~ (si < Len(metaToc) - 1)
  /\ bookMd' = Book(lastTocItemIndex, chapters)
  /\ spc' = "written"
  /\ UNCHANGED << exportFixed, exportInputs, si, sindex, chapters, lastTocItemIndex >>

NextExport ==
  \/ ExportAsserts
  \/ TrackLastTocItem
  \/ SkipPair
  \/ EmitChapter
  \/ ParagraphTooLarge
  \/ FinishExport

ExportSpec == InitExport /\ [][NextExport]_vars

\* await main(), once more, over the same content.json and metadata.json
ExportAgain ==
  /\ spc \in {"written", "failed"}
  /\ spc' = "start"
  /\ si' = 0
  /\ sindex' = 0
  /\ chapters' = << >>
  /\ lastTocItemIndex' = 0
  /\ UNCHANGED << exportFixed, exportInputs, bookMd >>

NextExportTwice ==
  \/ ExportAsserts
  \/ TrackLastTocItem
  \/ SkipPair
  \/ EmitChapter
  \/ ParagraphTooLarge
  \/ FinishExport
  \/ ExportAgain

ExportTwiceSpec == InitExport /\ [][NextExportTwice]_vars

\* ------------------------------------------- properties of the exporters
\* position j (from 0) holds the first chunk whose page is at least p
firstAtLeast(j, p) ==
  /\ j \in 0..(Len(exportContent) - 1)
  /\ exportContent[j + 1].page >= p
  /\ \A h \in 1..j : exportContent[h].page < p

\* C19: outside the preview mode, the chapter emitted for entry[i] holds
\* exactly the chunks [currentIndex, nextIndex), currentIndex being where
\* the chapter before it ended and nextIndex the first chunk whose page is
\* at least entry[i+1].page (the end of the array if entry[i+1] has no
\* page); for the TOC Title@1, Ch1@2, Copyright@19 and chunks for pages
\* 1..20, Ch1 spans exactly pages 2..18 and there is no Copyright chapter.
C19_ChapterIsSliceUpToNextEntry ==
  ~ isPreview =>
    /\ \A n \in DOMAIN chapters :
         LET c == chapters[n]
             next == metaToc[c.entry + 2]
         IN  /\ metaToc[c.entry + 1].page # None
             /\ c.label = metaToc[c.entry + 1].label
             /\ c.from = (IF n = 1 THEN 0 ELSE chapters[n - 1].to)
             /\ IF next.page = None THEN c.to = Len(exportContent)
                ELSE firstAtLeast(c.to, next.page)
             /\ Len(c.chunks) = c.to - c.from
             /\ \A m \in DOMAIN c.chunks :
                  c.chunks[m] = exportContent[c.from + m]
    /\ (metaToc = ExampleToc /\ contentJson.chunks = ExampleContent
        /\ spc = "written") =>
         /\ Len(chapters) = 2
         /\ chapters[1].label = "Title"
         /\ chapters[2].label = "Ch1"
         /\ [m \in DOMAIN chapters[2].chunks |-> chapters[2].chunks[m].page]
              = [m \in 1..17 |-> m + 1]

\* the book of the example has been exported
C19_Witness ==
  /\ metaToc = ExampleToc
  /\ contentJson.chunks = ExampleContent
  /\ ~ isPreview
  /\ spc = "written"
  /\ Len(chapters) = 2

\* C20: a pair whose nextIndex is below the current index is passed over:
\* no chapter is emitted, no error is raised and index is unchanged; index
\* never decreases.
C20_BackwardPairSkipped ==
  [][ /\ sindex' >= sindex
      /\ (/\ spc = "loop"
          /\ si < Len(metaToc) - 1
          /\ metaToc[si + 1].page # None
          /\ nextIndexOf(si) < sindex) =>
           /\ chapters' = chapters
           /\ sindex' = sindex
           /\ si' = si + 1
           /\ spc' = "loop" ]_vars

\* the pair just passed over has a nextIndex that exists and lies before
\* the end of the chapter emitted earlier
C20_Witness ==
  /\ spc = "loop"
  /\ si >= 1
  /\ chapters # << >>
  /\ metaToc[si].page # None
  /\ nextIndexOf(si - 1) >= 0
  /\ nextIndexOf(si - 1) < sindex
  /\ \A n \in DOMAIN chapters : chapters[n].entry # si - 1

emittedEntries == {chapters[n].entry : n \in DOMAIN chapters}

\* C21: when book.md is written, lastTocItemIndex is the entry of the last
\* chapter emitted, and the entries listed in the table of contents are
\* the entries with a page up to that one (none when no chapter was
\* emitted).
C21_LastTocItemIsLastEmitted ==
  (spc = "written" /\ exportScript = "markdown") =>
    IF chapters = << >> THEN bookMd[1].toc = {}
    ELSE /\ lastTocItemIndex = chapters[Len(chapters)].entry
         /\ bookMd[1].toc =
              {i \in 0..chapters[Len(chapters)].entry :
                 metaToc[i + 1].page # None}

MaxNumeral == 3999   \* roman numerals encode 1..MaxNumeral
MaxFooter  == 12     \* the footers show positions and totals 0..MaxFooter

\* ------------------------------------------------------------ deromanize
\* String.prototype.toUpperCase on the letters of the numerals
toUpperCase(ch) ==
  CASE ch = "i" -> "I" [] ch = "v" -> "V" [] ch = "x" -> "X"
    [] ch = "l" -> "L" [] ch = "c" -> "C" [] ch = "d" -> "D"
    [] ch = "m" -> "M" [] OTHER -> ch

isNumeral(ch) == ch \in {"I", "V", "X", "L", "C", "D", "M"}

\* const numerals = { I: 1, V: 5, X: 10, L: 50, C: 100, D: 500, M: 1000 }
numerals(ch) ==
  CASE ch = "I" -> 1 [] ch = "V" -> 5 [] ch = "X" -> 10 [] ch = "L" -> 50
    [] ch = "C" -> 100 [] ch = "D" -> 500 [] ch = "M" -> 1000

\* while (roman.length) { val = numerals[roman.shift()];
\*   num += val * (val < numerals[roman[0]] ? -1 : 1) }
\* numerals[...] is undefined for any other character and past the end:
\* val < undefined is false, undefined * 1 is NaN.
RECURSIVE deromanizeLoop(_, _)
deromanizeLoop(roman, num) ==
  IF roman = << >> THEN num
  ELSE LET first == Head(roman)
           rest  == Tail(roman)
       IN  IF num.nan \/ ~ isNumeral(first) THEN deromanizeLoop(rest, NaN)
           ELSE LET val  == numerals(first)
                    sign == IF /\ rest # << >>
                               /\ isNumeral(Head(rest))
                               /\ val < numerals(Head(rest))
                            THEN 0 - 1 ELSE 1
                IN  deromanizeLoop(rest, Num(num.v + val * sign))

\* the letters looked up as they are written
deromanizeCaseSensitive(romanNumeral) == deromanizeLoop(romanNumeral, Num(0))

deromanize(romanNumeral) ==
  deromanizeLoop([k \in DOMAIN romanNumeral |-> toUpperCase(romanNumeral[k])],
                 Num(0))

\* The canonical numeral of n (standard subtractive notation): what a
\* footer in the third notation shows for page n.
RomanSymbols ==
  << [value |-> 1000, letters |-> << "M" >>],
     [value |-> 900,  letters |-> << "C", "M" >>],
     [value |-> 500,  letters |-> << "D" >>],
     [value |-> 400,  letters |-> << "C", "D" >>],
     [value |-> 100,  letters |-> << "C" >>],
     [value |-> 90,   letters |-> << "X", "C" >>],
     [value |-> 50,   letters |-> << "L" >>],
     [value |-> 40,   letters |-> << "X", "L" >>],
     [value |-> 10,   letters |-> << "X" >>],
     [value |-> 9,    letters |-> << "I", "X" >>],
     [value |-> 5,    letters |-> << "V" >>],
     [value |-> 4,    letters |-> << "I", "V" >>],
     [value |-> 1,    letters |-> << "I" >>] >>

RECURSIVE romanizeFrom(_, _)
romanizeFrom(n, k) ==
  IF n = 0 THEN << >>
  ELSE IF n >= RomanSymbols[k].value
       THEN RomanSymbols[k].letters \o romanizeFrom(n - RomanSymbols[k].value, k)
       ELSE romanizeFrom(n, k + 1)

romanize(n) == romanizeFrom(n, 1)

lowerLetter(ch) ==
  CASE ch = "I" -> "i" [] ch = "V" -> "v" [] ch = "X" -> "x"
    [] ch = "L" -> "l" [] ch = "C" -> "c" [] ch = "D" -> "d"
    [] ch = "M" -> "m" [] OTHER -> ch

lowerCased(word) == [k \in DOMAIN word |-> lowerLetter(word[k])]

\* the canonical numerals, in upper and in lower case
CanonicalNumerals ==
  UNION { { romanize(n), lowerCased(romanize(n)) } : n \in 1..MaxNumeral }

\* ---------------------------------------------------------- parsePageNav
\* The footers of the model: "<keyword> <position> of <total>".
RECURSIVE toDigits(_)
toDigits(n) ==
  IF n < 10 THEN << Digits[n + 1] >>
  ELSE toDigits(n \div 10) \o << Digits[(n % 10) + 1] >>

footer(keyword, position, ofTotal) ==
  << << keyword >>, position, << "of" >>, ofTotal >>

isRomanLetter(ch) == isNumeral(toUpperCase(ch))

\* text matches /<keyword>\s+(<class>+)\s+of\s+(\d+)/i from word k on
matchAt(text, k, keyword, inClass(_)) ==
  /\ k + 3 <= Len(text)
  /\ text[k] # << >>
  /\ foldCase(text[k][Len(text[k])]) = keyword
  /\ text[k + 1] # << >>
  /\ \A c \in DOMAIN text[k + 1] : inClass(text[k + 1][c])
  /\ fold(text[k + 2]) = << "of" >>
  /\ text[k + 3] # << >>
  /\ isDigit(Head(text[k + 3]))

\* text?.match(...): the first match, 0 when there is none (or text is null)
match(text, keyword, inClass(_)) ==
  IF \E k \in 1..Len(text) : matchAt(text, k, keyword, inClass)
  THEN CHOOSE k \in 1..Len(text) :
         /\ matchAt(text, k, keyword, inClass)
         /\ \A j \in 1..(k - 1) : ~ matchAt(text, j, keyword, inClass)
  ELSE 0

\* the PageNav of a position and a total, undefined when one of them is NaN
PageNav(field, position, ofTotal) ==
  IF position.nan \/ ofTotal.nan THEN Undefined
  ELSE IF field = "page" THEN [page |-> position.v, total |-> ofTotal.v]
  ELSE [location |-> position.v, total |-> ofTotal.v]

\* the location notation tried before the page notation
parsePageNavLocationFirst(text) ==
  LET a == match(text, "page", isDigit)
      b == match(text, "location", isDigit)
      c == match(text, "page", isRomanLetter)
  IN  IF b # 0
      THEN PageNav("location", parseInt(text[b + 1]), parseInt(text[b + 3]))
      ELSE IF a # 0
      THEN PageNav("page", parseInt(text[a + 1]), parseInt(text[a + 3]))
      ELSE IF c # 0
      THEN PageNav("location", deromanize(text[c + 1]), parseInt(text[c + 3]))
      ELSE Undefined

parsePageNav(text) ==
  LET a == match(text, "page", isDigit)
      b == match(text, "location", isDigit)
      c == match(text, "page", isRomanLetter)
  IN  IF a # 0
      THEN PageNav("page", parseInt(text[a + 1]), parseInt(text[a + 3]))
      ELSE IF b # 0
      THEN PageNav("location", parseInt(text[b + 1]), parseInt(text[b + 3]))
      ELSE IF c # 0
      THEN PageNav("location", deromanize(text[c + 1]), parseInt(text[c + 3]))
      ELSE Undefined

isSet(nav, field) == nav # Undefined /\ field \in DOMAIN nav

\* the footer read without the normalisation
getPageNavAsParsed(footerText) == parsePageNav(footerText)

\* getPageNav of the later extract script: a footer that only shows a
\* location is turned into a page
\* (the getPageNav of src/extract-kindle-book.ts returns parsePageNav(footerText))
getPageNav(footerText) ==
  LET parsed == parsePageNav(footerText)
  IN  IF parsed # Undefined /\ ~ isSet(parsed, "page") /\ isSet(parsed, "location")
      THEN [page |-> parsed.location, location |-> parsed.location,
            total |-> parsed.total]
      ELSE parsed

\* The footers the parsers are called with.
PageKeywords == {"Page", "page", "PAGE"}
LocationKeywords == {"Location", "location", "LOCATION"}

PageFooters ==
  { footer(kw, toDigits(n), toDigits(m)) :
      kw \in PageKeywords, n \in 0..MaxFooter, m \in 0..MaxFooter }

LocationFooters ==
  { footer(kw, toDigits(n), toDigits(m)) :
      kw \in LocationKeywords, n \in 0..MaxFooter, m \in 0..MaxFooter }

RomanFooters ==
  UNION { { footer(kw, romanize(n), toDigits(m)),
            footer(kw, lowerCased(romanize(n)), toDigits(m)) } :
          kw \in PageKeywords, n \in 1..MaxFooter, m \in 0..MaxFooter }

\* footers in none of the notations: null or empty, a loading message, a
\* footer cut short, a position that is no number, another keyword
OtherFooters ==
  { << >>,
    << << "Loading" >> >>,
    << << "Page" >>, << "5" >> >>,
    << << "Page" >>, << "5", "a" >>, << "of" >>, << "1", "0" >> >>,
    << << "Page" >>, << "5" >>, << "of" >>, << "x" >> >>,
    << << "Chapter" >>, << "5" >>, << "of" >>, << "9" >> >> }

\* footers that show two notations at once
DoubleFooters ==
  { footer("Location", toDigits(n), toDigits(MaxFooter))
      \o footer("Page", toDigits(m), toDigits(MaxFooter)) :
      n \in 1..MaxFooter, m \in 1..MaxFooter }
  \cup
  { footer("page", romanize(n), toDigits(MaxFooter))
      \o footer("Location", toDigits(m), toDigits(MaxFooter)) :
      n \in 1..MaxFooter, m \in 1..MaxFooter }

FooterTexts ==
  PageFooters \cup LocationFooters \cup RomanFooters \cup OtherFooters
    \cup DoubleFooters

\* --------------------------------------------------------- parseTocItems
MaxBoundaryEntries == 3   \* the TOCs handed to parseTocItems have 0..3 entries
BoundaryTotal == 10       \* and belong to a book of 10 pages

\* /^epilog/i: "(epilogue purposefully shortened here)"
EpilogPattern == Pattern("start", << "epilog" >>)

\* the patterns of parseTocItems of kindle-client.ts
PostContentPatterns ==
  BackMatterPatterns \cup
    { Pattern("start", << "excerpt:" >>),
      Pattern("start", << "other", "books" >>),
      Pattern("start", << "other", "works" >>),
      Pattern("start", << "newsletter" >>) }

\* the callback without the test of the percentage
isPostContentAnyPage(tocItems, i, totalNumPages) ==
  /\ tocItems[i].page # None
  /\ i # firstPageTocIndex(tocItems)
  /\ ~ test(EpilogPattern, tocItems[i].label)
  /\ \E p \in PostContentPatterns : test(p, tocItems[i].label)

\* the callback of the second tocItems.find of kindle-client.ts
isPostContent(tocItems, i, totalNumPages) ==
  /\ tocItems[i].page # None
  /\ i # firstPageTocIndex(tocItems)
  /\ ~ (tocItems[i].page * 10 < 9 * totalNumPages)
  /\ ~ test(EpilogPattern, tocItems[i].label)
  /\ \E p \in PostContentPatterns : test(p, tocItems[i].label)

firstPostContentPageTocIndex(tocItems, totalNumPages) ==
  IF \E i \in 1..Len(tocItems) : isPostContent(tocItems, i, totalNumPages)
  THEN CHOOSE i \in 1..Len(tocItems) :
         /\ isPostContent(tocItems, i, totalNumPages)
         /\ \A j \in 1..(i - 1) : ~ isPostContent(tocItems, j, totalNumPages)
  ELSE 0

\* a failed assert
Threw(message) == [threw |-> message]

NoFirstPage == Threw("Unable to find first valid page in TOC")

\* parseTocItems of kindle-client.ts (entries by their index, 0: undefined)
clientParseTocItems(tocItems, totalNumPages) ==
  IF firstPageTocIndex(tocItems) = 0 THEN NoFirstPage
  ELSE [firstContentPageTocItem |-> firstPageTocIndex(tocItems),
        firstPostContentPageTocItem |->
          firstPostContentPageTocIndex(tocItems, totalNumPages)]

\* parseTocItems of extract-kindle-book.ts with its assert
extractParseTocItems(tocItems) ==
  IF firstPageTocIndex(tocItems) = 0 THEN NoFirstPage
  ELSE parseTocItems(tocItems)

\* The TOCs the two functions are called with.
BoundaryLabels ==
  { << "Chapter", "1" >>, << "Acknowledgements" >>, << "ACKNOWLEDGEMENTS" >>,
    << "Epilogue", "Preview" >>, << "Newsletter" >>, << "Copyright", "Page" >> }

\* no page, the first page, a page below nine tenths of the book, one above
BoundaryPages == {None, 1, BoundaryTotal - 2, BoundaryTotal - 1}

SeqsUpTo(S, n) == UNION { [1..k -> S] : k \in 0..n }

BoundaryTocItems ==
  SeqsUpTo({ TocItem(l, p, BoundaryTotal) :
               l \in BoundaryLabels, p \in BoundaryPages }, MaxBoundaryEntries)

BoundaryTocEntries ==
  SeqsUpTo({ TocEntry(l, p) : l \in BoundaryLabels, p \in BoundaryPages },
           MaxBoundaryEntries)

\* ------------------------------------------------------------- the calls
Callees == {"deromanize", "parsePageNav", "getPageNav", "parseTocItems",
            "kindle-client parseTocItems"}

InitParsers ==
  /\ TraversalOver
  /\ TranscriptionIdle
  /\ ExporterIdle
  /\ metaToc = << >>
  /\ contentJson = NoContent
  /\ callee \in Callees
  /\ argument \in
       CASE callee = "deromanize" -> CanonicalNumerals
         [] callee \in {"parsePageNav", "getPageNav"} -> FooterTexts
         [] callee = "parseTocItems" -> BoundaryTocItems
         [] callee = "kindle-client parseTocItems" ->
              { [tocItems |-> t, totalNumPages |-> BoundaryTotal] :
                  t \in BoundaryTocEntries }
  /\ returned = << >>
  /\ ppc = "called"

parserFixed == << traversal, transcription, metaToc, contentJson, exporter,
                  callee, argument >>

Return(value) ==
  /\ ppc = "called"
  /\ returned' = value
  /\ ppc' = "returned"
  /\ UNCHANGED parserFixed

CallDeromanize == callee = "deromanize" /\ Return(deromanize(argument))

CallParsePageNav == callee = "parsePageNav" /\ Return(parsePageNav(argument))

CallGetPageNav == callee = "getPageNav" /\ Return(getPageNav(argument))

CallParseTocItems ==
  callee = "parseTocItems" /\ Return(extractParseTocItems(argument))

CallClientParseTocItems ==
  /\ callee = "kindle-client parseTocItems"
  /\ Return(clientParseTocItems(argument.tocItems, argument.totalNumPages))

NextParsers ==
  \/ CallDeromanize
  \/ CallParsePageNav
  \/ CallGetPageNav
  \/ CallParseTocItems
  \/ CallClientParseTocItems

ParserSpec == InitParsers /\ [][NextParsers]_vars

\* ------------------------------------------------ properties of part 4
called(f) == callee = f /\ ppc = "returned"

\* The first entry after the first entry with a page that is at nine tenths
\* of the book or later, whose label matches one of the patterns and is not
\* excluded (0: there is none).
firstBackMatterEntry(labels, pgs, tot, patterns, excluded(_)) ==
  LET withPage == {k \in DOMAIN pgs : pgs[k] # None}
      firstContent == CHOOSE k \in withPage : \A j \in withPage : k <= j
      candidates ==
        {i \in withPage :
           /\ i > firstContent
           /\ pgs[i] * 10 >= 9 * tot
           /\ \E p \in patterns : test(p, labels[i])
           /\ ~ excluded(labels[i])}
  IN  IF candidates = {} THEN 0
      ELSE CHOOSE i \in candidates : \A j \in candidates : i <= j

labelsOf(tocItems) ==
  [k \in DOMAIN tocItems |->
     IF "label" \in DOMAIN tocItems[k] THEN tocItems[k].label
     ELSE tocItems[k].title]

pagesOf(tocItems) == [k \in DOMAIN tocItems |-> tocItems[k].page]

C25_FootersParsedExactly ==
  called("parsePageNav") =>
    /\ \A kw \in PageKeywords : \A n, m \in 0..MaxFooter :
         argument = footer(kw, toDigits(n), toDigits(m)) =>
           returned = [page |-> n, total |-> m]
    /\ \A kw \in LocationKeywords : \A n, m \in 0..MaxFooter :
         argument = footer(kw, toDigits(n), toDigits(m)) =>
           returned = [location |-> n, total |-> m]
    /\ \A kw \in PageKeywords : \A n \in 1..MaxFooter : \A m \in 0..MaxFooter :
         argument \in { footer(kw, romanize(n), toDigits(m)),
                        footer(kw, lowerCased(romanize(n)), toDigits(m)) } =>
           returned = [location |-> n, total |-> m]
    /\ \A n, m \in 1..MaxFooter :
         /\ argument = footer("Location", toDigits(n), toDigits(MaxFooter))
                         \o footer("Page", toDigits(m), toDigits(MaxFooter)) =>
              returned = [page |-> m, total |-> MaxFooter]
         /\ argument = footer("page", romanize(n), toDigits(MaxFooter))
                         \o footer("Location", toDigits(m), toDigits(MaxFooter)) =>
              returned = [location |-> m, total |-> MaxFooter]
    /\ argument \in OtherFooters => returned = Undefined

\* "page ix of 12" was parsed to location 9 of 12
C25_Witness ==
  /\ called("parsePageNav")
  /\ argument = footer("page", << "i", "x" >>, << "1", "2" >>)
  /\ returned = [location |-> 9, total |-> 12]

\* C26 (as claimed): every sample the parser or the footer read returns has
\* exactly one of page and location set, and a total greater than 0.
C26_ExactlyOnePositionPositiveTotal ==
  ((called("parsePageNav") \/ called("getPageNav")) /\ returned # Undefined) =>
    /\ isSet(returned, "page") # isSet(returned, "location")
    /\ returned.total > 0

\* C26 (amended): a sample of parsePageNav has exactly one of page and
\* location set and the total the footer shows (0 for a footer "... of 0");
\* a sample of the normalising getPageNav always has a page, and has a
\* location equal to that page exactly when the footer is in the location or
\* the roman notation.
C26_ParserOnePositionReadBoth ==
  /\ (called("parsePageNav") /\ returned # Undefined) =>
       /\ isSet(returned, "page") # isSet(returned, "location")
       /\ returned.total >= 0
       /\ returned.total = 0 => \E k \in DOMAIN argument : argument[k] = << "0" >>
  /\ (called("getPageNav") /\ returned # Undefined) =>
       /\ isSet(returned, "page")
       /\ isSet(returned, "location") <=> isSet(parsePageNav(argument), "location")
       /\ isSet(returned, "location") => returned.page = returned.location
       /\ returned.total = parsePageNav(argument).total

\* the footer "Location 5 of 12" was read as page 5 and location 5
C26_Witness ==
  /\ called("getPageNav")
  /\ argument = footer("Location", << "5" >>, << "1", "2" >>)
  /\ returned = [page |-> 5, location |-> 5, total |-> 12]

\* C27: deromanize returns n for the canonical numeral of n, 1 <= n <=
\* MaxNumeral, written in upper or in lower case (no two values share a
\* canonical numeral, so the value returned is the value encoded).
C27_CanonicalNumeralsDecoded ==
  called("deromanize") =>
    /\ ~ returned.nan
    /\ returned.v \in 1..MaxNumeral
    /\ argument \in { romanize(returned.v), lowerCased(romanize(returned.v)) }

\* "xiv" was decoded to 14
C27_Witness ==
  /\ called("deromanize")
  /\ argument = << "x", "i", "v" >>
  /\ returned = Num(14)

(***************************************************************************)
(* Part 5: further properties of the traversal (part 1), and the fallback  *)
(* ladder advanceOnePageFromStuck called on its own.                       *)
(***************************************************************************)
\* C24: the first content entry is the first TOC entry with a page; with no
\* such entry (the empty TOC included) the run fails at the TOC, at once:
\* nothing is captured, no file is written, metadata.json is not written.
C24_NoContentEntryIsFatal ==
  /\ ~ hasContent =>
       /\ pc \in {"idle", "toc", "exited"}
       /\ pc = "exited" => outcome = "Failed"
       /\ pages = << >>
       /\ disk = NoFiles
       /\ metaRun = 0
  /\ (hasContent /\ mode # "glitchy" /\ pages # << >>) =>
       \E i \in 1..Len(toc) :
         /\ toc[i].page # None
         /\ \A j \in 1..(i - 1) : toc[j].page = None
         /\ pages[1].page = toc[i].page

\* the run over a book with an empty TOC has failed
C24_Witness ==
  /\ mode = "reliable"
  /\ toc = << >>
  /\ pc = "exited"
  /\ outcome = "Failed"

\* C28: the final end-of-book capture ends the loop (so there is at most
\* one), is taken only when the last captured page is not the expected final
\* page, and is labeled min(last page + 1, total).
C28_FinalCaptureOnlyWhenShort ==
  (mode = "reliable" /\ "final capture" \in log) =>
    LET n == Len(pages)
    IN  /\ pc \in {"write_meta", "reset", "exited"}
        /\ n >= 2
        /\ pages[n - 1].page # totalContentPages
        /\ pages[n].page = Min(pages[n - 1].page + 1, bookTotal)

\* C29: on a reliable surface the retry loop takes another pass only while
\* the render has not changed, and once it has changed the engine goes back
\* to the loop head to capture the new render.
C29_AdvanceThenCapture ==
  [][ mode = "reliable" =>
        /\ (pc = "retry" /\ pc' = "retry") => lastSrc' = lastSrc
        /\ (pc = "guard" /\ lastSrc # src /\ retries < maxRetries) => pc' = "head"
    ]_vars

\* ---------------------------------------------- the ladder on its own
\* The engine is in the retry loop after the capture of pageNav, on a
\* surface that may hide the chevron, and calls advanceOnePageFromStuck.
InitLadder ==
  /\ mode \in {"frozen", "glitchy"}
  /\ toc \in Tocs(mode)
  /\ firstPageTocIndex(toc) # 0
  /\ skipReset = FALSE
  /\ run = 1
  /\ pc = "retry"
  /\ outcome = "none"
  /\ initialPage = None
  /\ pageNav \in 1..totalContentPages
  /\ src = pageNav
  /\ lastSrc = pageNav
  /\ retries = 0
  /\ cur \in Drift(pageNav)
  /\ pages = << PageChunk(0, pageNav) >>
  /\ lastCapturedPage = pageNav
  /\ stagnantCount = 0
  /\ iterations = 1
  /\ reachedEnd = FALSE
  /\ disk = writeFile(NoFiles, screenshotPath(0, pageNav), 1)
  /\ metadata = << >>
  /\ metaRun = 0
  /\ log = {}
  /\ TranscriptionIdle
  /\ ExporterIdle
  /\ metaToc = << >>
  /\ contentJson = NoContent
  /\ callee = "advanceOnePageFromStuck"
  /\ argument = [prevSrc |-> lastSrc,
                 targetNextPage |-> Min(pageNav + 1, bookTotal)]
  /\ returned = << >>
  /\ ppc = "called"

\* const advanced = await advanceOnePageFromStuck(lastSrc, Math.min(...))
CallAdvanceOnePageFromStuck ==
  /\ callee = "advanceOnePageFromStuck"
  /\ ppc = "called"
  /\ \E o \in advanceOnePageFromStuck(cur, argument.prevSrc,
                                      argument.targetNextPage) :
       /\ returned' = o
       /\ cur' = o.cur
  /\ ppc' = "returned"
  /\ UNCHANGED << mode, toc, skipReset, run, pc, outcome, initialPage, pageNav,
                  src, pages, lastCapturedPage, stagnantCount, iterations,
                  reachedEnd, retries, lastSrc, disk, metadata, metaRun, log,
                  transcription, metaToc, contentJson, exporter, callee,
                  argument >>

NextLadder == CallAdvanceOnePageFromStuck

LadderSpec == InitLadder /\ [][NextLadder]_vars

MaxLines == 3          \* lines of a returned text

\* the lines a backend may return
RawLines ==
  { << >>, << Space >>, << "7" >>, << Space, "7", Space >>,
    << "words" >>, << Space, "words", Space >> }

\* rawText: at least one line (the empty string is one empty line)
RawTexts == UNION { [1..n -> RawLines] : n \in 1..MaxLines }

\* the tables of contents of the stripped transcripts: the chapter starts
\* on page 2, on the first page, or its label ends with a question mark
EchoTocs ==
  { TranscribedToc,
    << TocEntry(<< "Cover" >>, None), TocEntry(<< Label >>, 1) >>,
    << TocEntry(<< "Cover" >>, None), TocEntry(<< "Wh", "y", "?" >>, 2) >> }

\* normalized transcripts, with and without an echo of a label
TranscriptTexts ==
  { << << "CHAPTER 1" >>, << "words" >> >>,
    << << "CHAPTER 1", Space, "words" >> >>,
    << << "CHAPTER 1" >> >>,
    << << "Wh", "y", "?" >>, << "words" >> >>,
    << << "WH", "Y", "?", Space, "words" >> >>,
    << << "words" >>, << "CHAPTER 1" >> >>,
    << << "words" >> >> }

TextCallees == {"normalize", "stripTocLabel"}

InitText ==
  /\ TraversalOver
  /\ ExporterIdle
  /\ script = "transcribe"
  /\ aiProvider = "openai"
  /\ concurrencyEnv = << >>
  /\ requestErrors = {}
  /\ tpc = "idle"
  /\ trun = 0
  /\ contentJson = NoContent
  /\ callee \in TextCallees
  /\ inputs \in (IF callee = "normalize" THEN {<< >>}
                 ELSE MetadataPages \ {<< >>})
  /\ task = << >>
  /\ metaToc \in (IF callee = "normalize" THEN {<< >>} ELSE EchoTocs)
  /\ argument \in (IF callee = "normalize" THEN RawTexts
                   ELSE [pageChunkIndex : DOMAIN inputs,
                         text : TranscriptTexts])
  /\ returned = << >>
  /\ ppc = "called"

\* let text = rawText.replace(...).replaceAll(...).replaceAll(...)
CallNormalize == callee = "normalize" /\ Return(normalize(argument))

\* const prevPageChunk = metadata.pages[pageChunkIndex - 1] ... text.replace
CallStripTocLabel ==
  /\ callee = "stripTocLabel"
  /\ Return(stripTocLabel(argument.pageChunkIndex, argument.text))

NextText ==
  \/ CallNormalize
  \/ CallStripTocLabel

TextSpec == InitText /\ [][NextText]_vars

\* ------------------------------------------------ properties of part 6
whitespaceTrimmed(line) == trimEnd(trimStart(line))

\* the text without a number-only first line and a number-only last line
RECURSIVE withoutNumberEnds(_)
withoutNumberEnds(lines) ==
  IF lines # << >> /\ isNumberLine(Head(lines))
  THEN withoutNumberEnds(Tail(lines))
  ELSE IF lines # << >> /\ isNumberLine(lines[Len(lines)])
       THEN withoutNumberEnds(SubSeq(lines, 1, Len(lines) - 1))
       ELSE lines

\* C31: the normalized text is the returned text without the number-only
\* lines at its start and at its end, every other line (the number-only
\* lines of the interior included) kept in place with the white space at
\* its two ends trimmed.
C31_NumberLinesRemovedAtEndsOnly ==
  called("normalize") =>
    LET kept == withoutNumberEnds(argument)
        trimmed == [k \in DOMAIN kept |-> whitespaceTrimmed(kept[k])]
    IN  returned = (IF trimmed = << << >> >> THEN << >> ELSE trimmed)

\* line starts with the tokens of label, compared without regard to case
startsWithEcho(line, label) ==
  /\ Len(line) >= Len(label)
  /\ \A j \in DOMAIN label : toLowerCase(line[j]) = toLowerCase(label[j])

\* C32: the transcript of a capture loses a leading echo of a TOC label
\* (and the white space after it) exactly when a TOC entry starts at the
\* capture's page, the capture before it was on another page and the
\* transcript starts with that echo; in every other case it is unchanged.
C32_EchoStrippedOnFirstCaptureOfEntryPage ==
  called("stripTocLabel") =>
    LET k == argument.pageChunkIndex
        text == argument.text
        page == inputs[k].page
        fresh == k > 1 /\ inputs[k - 1].page # page
        echoed == {j \in DOMAIN metaToc :
                     /\ metaToc[j].page = page
                     /\ startsWithEcho(Head(text), metaToc[j].label)}
    IN  IF fresh /\ echoed # {}
        THEN \E j \in echoed :
               LET n == Len(metaToc[j].label)
               IN  returned
                     = skipWhitespace(<< SubSeq(Head(text), n + 1,
                                                Len(Head(text))) >>
                                      \o Tail(text))
        ELSE returned = text

(***************************************************************************)
(* Part 7: the library listing of the client, KindleClient._getAllBooks    *)
(* and _getBooks of src/kindle-client.ts.  The library of the account is   *)
(* the books 1..library in the order of the listing; the API answers a     *)
(* request with the books after the pagination token, querySize of them at *)
(* most, and with the token of the next page when books are left.          *)
(***************************************************************************)
MaxLibrary == 120      \* books of the account

DefaultQuerySize == 50     \* querySize: 50

\* the options a caller may pass (an absent key is not in the record)
QueryOptions ==
  { << >> } \cup
  { [fetchAllPages |-> f] : f \in {TRUE, FALSE} } \cup
  { [fetchAllPages |-> f, querySize |-> q] :
      f \in {TRUE, FALSE}, q \in {20, DefaultQuerySize} }

\* { sortType: 'recency', querySize: 50, fetchAllPages: false, ...opts }
defaultParams(opts) ==
  [querySize |-> IF "querySize" \in DOMAIN opts THEN opts.querySize
                 ELSE DefaultQuerySize,
   fetchAllPages |-> IF "fetchAllPages" \in DOMAIN opts
                     THEN opts.fetchAllPages ELSE FALSE,
   paginationToken |-> None]

\* _getBooks(params): one request to the API and its answer; the token is
\* the number of books before the page (None: the request carries no token,
\* the answer has none)
getBooks(params, library) ==
  LET offset == params.paginationToken
      last == Min(offset + params.querySize, library)
  IN  [books |-> [k \in 1..(last - offset) |-> offset + k],
       paginationToken |-> IF last < library THEN last ELSE None]

\* the do-while loop of _getAllBooks
RECURSIVE getAllBooksLoop(_, _, _, _)
getAllBooksLoop(params, library, allBooks, requests) ==
  LET res == getBooks(params, library)
      books == allBooks \o res.books
      sent == Append(requests, params.paginationToken)
  IN  IF \/ ~ params.fetchAllPages
         \/ res.paginationToken = None
         \/ Len(books) > params.querySize
      THEN [books |-> books, requests |-> sent,
            paginationToken |-> res.paginationToken]
      ELSE getAllBooksLoop(
             [params EXCEPT !.paginationToken = res.paginationToken],
             library, books, sent)

\* _getAllBooks(opts): the books returned, the tokens of the requests made
\* and the token of the last answer
getAllBooks(opts, library) ==
  getAllBooksLoop(defaultParams(opts), library, << >>, << >>)

InitClient ==
  /\ TraversalOver
  /\ TranscriptionIdle
  /\ ExporterIdle
  /\ metaToc = << >>
  /\ contentJson = NoContent
  /\ callee = "_getAllBooks"
  /\ argument \in [opts : QueryOptions, library : 0..MaxLibrary]
  /\ returned = << >>
  /\ ppc = "called"

CallGetAllBooks ==
  /\ callee = "_getAllBooks"
  /\ Return(getAllBooks(argument.opts, argument.library))

NextClient == CallGetAllBooks

ClientSpec == InitClient /\ [][NextClient]_vars

\* C33: with fetchAllPages true the requests go on until an answer has no
\* pagination token and the books returned are those of the whole library
\* in the order of the listing; without it (false is the default) there is
\* exactly one request and the books returned are those of the first page.
C33_AllPagesWhenAskedElseOne ==
  called("_getAllBooks") =>
    LET opts == argument.opts
        all == "fetchAllPages" \in DOMAIN opts /\ opts.fetchAllPages
        first == getBooks(defaultParams(opts), argument.library)
    IN  IF all
        THEN /\ returned.paginationToken = None
             /\ returned.books = [k \in 1..argument.library |-> k]
        ELSE /\ Len(returned.requests) = 1
             /\ returned.books = first.books

(***************************************************************************)
(* Part 8: further properties of the extraction (Spec of part 1).          *)
(***************************************************************************)
\* C34: every entry of the capture list, the final end-of-book capture
\* included, has a page number no greater than totalContentPages.
C34_NoCapturePastCutoff ==
  hasContent =>
    \A k \in DOMAIN pages : pages[k].page <= totalContentPages

\* the captures of the loop: the capture list without the final capture
loopCaptures ==
  IF "final capture" \in log THEN SubSeq(pages, 1, Len(pages) - 1) ELSE pages

\* the entries at the end of ps that have the page of its last entry
trailingRun(ps) ==
  Cardinality({k \in DOMAIN ps :
                 \A j \in k..Len(ps) : ps[j].page = ps[Len(ps)].page})

\* C36: no page number is in more than three consecutive entries of the
\* capture list, whatever the surface does.  The stagnation counter is 0
\* after a capture of the loop whose page differs from the page of the
\* capture before it and one more after each capture that repeats it (it
\* counts the repeats at the end of the list), and the loop is left when it
\* reaches the limit.
C36_AtMostThreeConsecutive ==
  /\ \A k \in 1..(Len(pages) - 3) :
       ~ (/\ pages[k].page = pages[k + 1].page
          /\ pages[k].page = pages[k + 2].page
          /\ pages[k].page = pages[k + 3].page)
  /\ stagnantCount = (IF loopCaptures = << >> THEN 0
                      ELSE trailingRun(loopCaptures) - 1)
  /\ stagnantCount <= StagnationLimit
  /\ stagnantCount = StagnationLimit => loopLeft

\* an unreliable surface: the same page was captured three times in a row
\* and the loop was left
C36_Witness ==
  /\ mode = "glitchy"
  /\ Len(pages) >= 3
  /\ pages[Len(pages)].page = pages[Len(pages) - 1].page
  /\ pages[Len(pages)].page = pages[Len(pages) - 2].page
  /\ stagnantCount = StagnationLimit
  /\ loopLeft

(***************************************************************************)
(* Part 9: further properties of the exporters (ExportSpec of part 3).     *)
(***************************************************************************)
\* C37: in the Markdown export the entries listed in the table of contents
\* of book.md are exactly the entries a chapter section was emitted for.
C37_ListingAgreesWithBody ==
  (spc = "written" /\ exportScript = "markdown") =>
    bookMd[1].toc = emittedEntries

\* position (from 0) up to which the chunks are owed to the chapters: the
\* first chunk of the page of the last TOC entry, the end of the list when
\* that entry has no page or no chunk reaches its page
owedUpTo ==
  LET lastEntry == metaToc[Len(metaToc)]
      reaching == {j \in DOMAIN exportContent :
                     lastEntry.page # None
                     /\ exportContent[j].page >= lastEntry.page}
  IN  IF reaching = {} THEN Len(exportContent)
      ELSE (CHOOSE j \in reaching : \A h \in reaching : j <= h) - 1

\* C35: outside the preview mode, when the book is written every chunk
\* from index 0 up to the first chunk of the last TOC entry's page (up to
\* the end of the list when no chunk reaches that page) is in exactly one
\* emitted chapter, and the chapters take their chunks in increasing order.
C35_NoChunkLost ==
  (spc = "written" /\ ~ isPreview) =>
    /\ \A j \in 0..(owedUpTo - 1) :
         Cardinality({n \in DOMAIN chapters :
                        chapters[n].from <= j /\ j < chapters[n].to}) = 1
    /\ \A n \in 1..(Len(chapters) - 1) :
         chapters[n].to <= chapters[n + 1].from

(***************************************************************************)
(* Part 10: the audio generation of export-book-audio: pMap over the       *)
(* batches, one mp3 file per batch.  src/export-book-audio.ts and its two  *)
(* earlier revisions (part_008, part_009) differ in the test of the file.  *)
(***************************************************************************)
MaxBatches == 3        \* batches handed to pMap

AudioScripts == {"export-book-audio", "part_008", "part_009"}

\* `${index}`.padStart(audioPadding, '0') + '.mp3'
audioFilePath(index) == index

\* the files an earlier run left in the directory
EarlierAudioFiles(n) ==
  { [f \in S |-> 0] : S \in SUBSET { audioFilePath(k) : k \in 0..(n - 1) } }

InitAudio ==
  /\ TraversalOver
  /\ TranscriptionIdle
  /\ ParsersIdle
  /\ metaToc = << >>
  /\ contentJson = NoContent
  /\ exportScript = "audio"
  /\ isPreview = FALSE
  /\ si = 0
  /\ sindex = 0
  /\ chapters = << >>
  /\ lastTocItemIndex = 0
  /\ bookMd = << >>
  /\ spc = "batched"
  /\ audioScript \in AudioScripts
  /\ force \in BOOLEAN
  /\ batches \in { [k \in 1..n |-> k - 1] : n \in 1..MaxBatches }
  /\ audioFiles \in EarlierAudioFiles(Len(batches))
  /\ batchTask = [k \in DOMAIN batches |-> "waiting"]
  /\ apc = "mapping"

audioFixed == << traversal, transcription, metaToc, contentJson, parsers,
                exportScript, isPreview, si, sindex, chapters,
                lastTocItemIndex, bookMd, spc, audioScript, force, batches >>

\* await fileExists(audioFilePath): true or false, it never throws
fileExists(path) == [threw |-> FALSE, value |-> path \in DOMAIN audioFiles]

\* await fs.access(audioFilePath, ...): resolves with undefined (which is
\* falsy) when the file can be read, rejects when it cannot
fsAccess(path) ==
  [threw |-> path \notin DOMAIN audioFiles, value |-> FALSE]

\* if (!force && (await <test of the file>))
skipTest(path) ==
  IF force THEN [threw |-> FALSE, value |-> FALSE]
  ELSE IF audioScript = "part_008" THEN fsAccess(path)
  ELSE fileExists(path)

\* pMap calls the mapper of batch k (the concurrency, 16 or 32, is above
\* the number of batches): the batch is skipped, or its text is sent to the
\* text-to-speech service; a mapper that throws makes pMap reject
StartBatch(k) ==
  /\ apc = "mapping"
  /\ batchTask[k] = "waiting"
  /\ \A j \in 1..(k - 1) : batchTask[j] # "waiting"
  /\ LET t == skipTest(audioFilePath(k - 1))
     IN  IF t.threw
         THEN /\ batchTask' = [batchTask EXCEPT ![k] = "rejected"]
              /\ apc' = "failed"
         ELSE /\ batchTask' = [batchTask EXCEPT ![k] =
                                IF t.value THEN "skipped" ELSE "requested"]
              /\ apc' = apc
  /\ UNCHANGED << audioFixed, audioFiles >>

\* the audio of batch k arrives: fs.writeFile(audioFilePath, Buffer.from(audio))
WriteAudio(k) ==
  /\ apc = "mapping"
  /\ batchTask[k] = "requested"
  /\ audioFiles' = writeFile(audioFiles, audioFilePath(k - 1), 1)
  /\ batchTask' = [batchTask EXCEPT ![k] = "written"]
  /\ UNCHANGED << audioFixed, apc >>

\* the request of batch k fails: the mapper throws and pMap rejects
SpeechFails(k) ==
  /\ apc = "mapping"
  /\ batchTask[k] = "requested"
  /\ batchTask' = [batchTask EXCEPT ![k] = "rejected"]
  /\ apc' = "failed"
  /\ UNCHANGED << audioFixed, audioFiles >>

\* every mapper has returned
FinishAudio ==
  /\ apc = "mapping"
  /\ \A k \in DOMAIN batchTask : batchTask[k] \in {"skipped", "written"}
  /\ apc' = "done"
  /\ UNCHANGED << audioFixed, audioFiles, batchTask >>

NextAudio ==
  \/ \E k \in DOMAIN batches : StartBatch(k)
  \/ \E k \in DOMAIN batches : WriteAudio(k)
  \/ \E k \in DOMAIN batches : SpeechFails(k)
  \/ FinishAudio

AudioSpec == InitAudio /\ [][NextAudio]_vars

\* C39: without FORCE, a batch whose audio file exists (a file of an
\* earlier run: those are the files written by run 0) is not sent to the
\* text-to-speech service and its file is left as it is; a batch whose file
\* does not exist is sent and, when its audio arrives, written; with FORCE
\* every batch is sent and written.
C39_ExistingAudioKeptUnlessForced ==
  [][ \A k \in DOMAIN batches :
        LET path == audioFilePath(k - 1)
            kept == /\ ~ force
                    /\ path \in DOMAIN audioFiles
                    /\ audioFiles[path] = 0
        IN  /\ kept => /\ audioFiles'[path] = audioFiles[path]
                       /\ batchTask'[k] # "requested"
            /\ (batchTask[k] = "waiting" /\ batchTask'[k] # "waiting") =>
                 batchTask'[k] = (IF kept THEN "skipped" ELSE "requested")
            /\ (batchTask[k] = "requested" /\ batchTask'[k] = "written") =>
                 /\ path \in DOMAIN audioFiles'
                 /\ audioFiles'[path] = 1
            /\ apc' = "done" =>
                 batchTask'[k] = (IF kept THEN "skipped" ELSE "written")
    ]_vars

(***************************************************************************)
(* Part 11: the paragraph batching of export-book-audio, called once on    *)
(* the paragraphs of a chapter.  A paragraph is its position in the        *)
(* chapter and its length; a batch is the sequence of the paragraphs that  *)
(* were combined into it, a blank line between two of them.                *)
(***************************************************************************)
MaxParagraphs == 4     \* paragraphs of a chapter

OpenAIMaxCharacters == 4096        \* ttsEngine === 'openai' ? 4096
UnrealSpeechMaxCharacters == 3000  \* : 3000
SeparatorLength == 2               \* '\n\n'

\* const maxCharactersPerAudioBatch = ttsEngine === 'openai' ? 4096 : 3000
maxCharactersPerAudioBatch(ttsEngine) ==
  IF ttsEngine = "openai" THEN OpenAIMaxCharacters
  ELSE UnrealSpeechMaxCharacters

\* lengths around the two limits: 1499 + 2 + 1499 = 3000 and
\* 2047 + 2 + 2047 = 4096 fit, one character more does not
ParagraphLengths == {0, 1499, 2047, 2048, 3001, 4097}

\* t = `${tocItem.label}\n\n${text}`.split('\n\n'): at least one paragraph
ChapterParagraphs ==
  UNION { { [k \in 1..n |-> [k |-> k, length |-> f[k]]] :
            f \in [1..n -> ParagraphLengths] } : n \in 1..MaxParagraphs }

\* chunk.length of a batch: its paragraphs and the blank lines between them
RECURSIVE batchLength(_)
batchLength(batch) ==
  IF batch = << >> THEN 0
  ELSE Head(batch).length
       + (IF Tail(batch) = << >> THEN 0
          ELSE SeparatorLength + batchLength(Tail(batch)))

\* the do-while loop over t, j counted from 0, and the batches pushed
\* after it
RECURSIVE paragraphLoop(_, _, _)
paragraphLoop(t, j, max) ==
  LET chunk == t[j + 1]
  IN  IF batchLength(chunk) > max
      THEN Threw("TODO: handle large paragraphs")
      ELSE IF j < Len(t) - 1 /\ batchLength(chunk \o t[j + 2]) <= max
           THEN paragraphLoop(SubSeq(t, 1, j) \o << chunk \o t[j + 2] >>
                                \o SubSeq(t, j + 3, Len(t)), j, max)
           ELSE IF j + 1 < Len(t) THEN paragraphLoop(t, j + 1, max)
                ELSE [batches |-> t]

\* every paragraph is left in a batch of its own
combineParagraphsNever(paragraphs, ttsEngine) ==
  IF \E k \in DOMAIN paragraphs :
       paragraphs[k].length > maxCharactersPerAudioBatch(ttsEngine)
  THEN Threw("TODO: handle large paragraphs")
  ELSE [batches |-> [k \in DOMAIN paragraphs |-> << paragraphs[k] >>]]

\* Combine successive paragraphs if they can fit with a single audio batch.
combineParagraphs(paragraphs, ttsEngine) ==
  paragraphLoop([k \in DOMAIN paragraphs |-> << paragraphs[k] >>], 0,
                maxCharactersPerAudioBatch(ttsEngine))

InitBatching ==
  /\ TraversalOver
  /\ TranscriptionIdle
  /\ ExporterIdle
  /\ metaToc = << >>
  /\ contentJson = NoContent
  /\ callee = "combineParagraphs"
  /\ argument \in [ttsEngine : {"openai", "unrealspeech"},
                   t : ChapterParagraphs]
  /\ returned = << >>
  /\ ppc = "called"

CallCombineParagraphs ==
  /\ callee = "combineParagraphs"
  /\ Return(combineParagraphs(argument.t, argument.ttsEngine))

NextBatching == CallCombineParagraphs

BatchingSpec == InitBatching /\ [][NextBatching]_vars

\* the paragraphs of the batches, in the order of the batches
RECURSIVE joined(_)
joined(bs) == IF bs = << >> THEN << >> ELSE Head(bs) \o joined(Tail(bs))

\* C40: the batching of a chapter fails exactly when a paragraph alone is
\* longer than maxCharactersPerAudioBatch; otherwise it ends with batches
\* that are each at most that long, that joined by blank lines are the
\* paragraphs of the chapter in their order, and no two adjacent batches
\* of which would fit into the limit together.
C40_BatchesWithinLimitAndMaximal ==
  called("combineParagraphs") =>
    LET max == maxCharactersPerAudioBatch(argument.ttsEngine)
        t == argument.t
    IN  IF \E k \in DOMAIN t : t[k].length > max
        THEN "threw" \in DOMAIN returned
        ELSE /\ "threw" \notin DOMAIN returned
             /\ \A n \in DOMAIN returned.batches :
                  batchLength(returned.batches[n]) <= max
             /\ joined(returned.batches) = t
             /\ \A n \in 1..(Len(returned.batches) - 1) :
                  batchLength(returned.batches[n] \o returned.batches[n + 1])
                    > max

\* two paragraphs were combined into the first batch and the third did
\* not fit into it
C40_Witness ==
  /\ called("combineParagraphs")
  /\ "threw" \notin DOMAIN returned
  /\ Len(returned.batches) = 2
  /\ Len(returned.batches[1]) = 2
  /\ batchLength(returned.batches[1])
       = maxCharactersPerAudioBatch(argument.ttsEngine)

(***************************************************************************)
(* Part 12: the worker pool of ocr-transcribe-book-content: `concurrency`  *)
(* tesseract workers are created, and the mapper of the image at position  *)
(* workerIndex of the list uses workers[workerIndex % workers.length].     *)
(***************************************************************************)
MaxImages == 3         \* screenshots handed to the pool

\* OCR_CONCURRENCY: unset (4 workers), one worker, two workers
PoolConcurrencyEnvs == { << >>, << "1" >>, << "2" >> }

\* const worker = workers[workerIndex % workers.length]
workerOf(k) == (k - 1) % concurrency.v

\* the workers that have a recognize() call pending, one entry per call
busyWorkers ==
  [k \in {j \in DOMAIN task : task[j].st = "inflight"} |-> workerOf(k)]

InitPool ==
  /\ TraversalOver
  /\ ExporterIdle
  /\ ParsersIdle
  /\ script = "ocr"
  /\ aiProvider = "openai"
  /\ concurrencyEnv \in PoolConcurrencyEnvs
  /\ inputs \in { [k \in 1..n |-> PageChunk(k - 1, k)] : n \in 0..MaxImages }
  /\ metaToc = TranscribedToc
  /\ task = [k \in DOMAIN inputs |-> Waiting]
  /\ requestErrors = {}
  /\ contentJson = NoContent
  /\ tpc = "start"
  /\ trun = 1

NextPool ==
  \/ NoPagesAssert
  \/ CallPMap
  \/ \E k \in DOMAIN task : StartMapper(k)
  \/ \E k \in DOMAIN task : Answer(k)
  \/ WriteContent

PoolSpec == InitPool /\ [][NextPool]_vars

====
